---- MODULE Spec2Model ----
(***************************************************************************)
(* State-machine model of the dioxus-motion2 animation core: the timing    *)
(* state machine, the tween and spring engines, the sequence and group     *)
(* combinators and the AnimationEngine ("Value Cell") that drives them.    *)
(*                                                                         *)
(* Representation.  Values and velocities are f32, held and computed in   *)
(* IEEE single precision.  A frame time dt is given in whole milliseconds  *)
(* and stands for the f32 nearest to dt / 1000 seconds; a spring           *)
(* coefficient (stiffness, damping, mass) is given in tenths and stands    *)
(* for the f32 nearest to that many tenths.  A Duration (the duration of a *)
(* tween or keyframe animation, its elapsed time, the start delay of a     *)
(* timing, the delays of a stagger) is a number of nanoseconds, advanced   *)
(* by Duration::from_secs_f32(dt).  Completion callbacks are identified by *)
(* small integers; invoking one is recorded in a ghost variable.           *)
(***************************************************************************)
EXTENDS Integers, Sequences, FiniteSets, TLC

VARIABLES
    engine,     \* the AnimationEngine: current, velocity, animation, is_active, callbacks
    invoked,    \* ghost: callback id -> number of times it has been invoked
    cancelled,  \* ghost: callbacks that were pending when stop() discarded the animation
    lastOp,     \* ghost: the last engine operation and what it observed
    registered, \* ghost: number of completion callbacks handed to the cell so far
    starts,     \* ghost: number of animations installed so far
    anim,       \* the animation under test of the stand-alone specifications
    res,        \* ghost: what the last update of anim returned
    cbCount,    \* ghost: number of invocations of anim's completion callback
    cycles,     \* ghost: number of handle_loop_completion calls made by anim
    calls,      \* ghost: per member, number of update calls it has received (saturating)
    retDone,    \* ghost: per member, whether one of its updates returned Completed
    clock,      \* ghost: total dt supplied to the animation under test (saturating)
    cadence     \* the dt (ms) the tick source supplies while a spring is being driven

vars == <<engine, invoked, cancelled, lastOp, registered, starts, anim, res, cbCount, cycles, calls, retDone, clock, cadence>>

engineVars == <<engine, invoked, cancelled, lastOp, registered, starts>>
animVars == <<anim, res, cbCount, cycles, calls, retDone, clock>>

----------------------------------------------------------------------------
(* Bounds of the model. *)

MaxCount == 3        \* largest n of LoopMode::Count(n) explored
MaxLoops == 4        \* cap on timing.current_loop under LoopMode::Infinite
MaxMembers == 2      \* largest number of steps / group members explored
MaxCallbacks == 2    \* number of completion callbacks that may be registered on the engine
CallCap == 2         \* the ghost counter of a member's update calls saturates here
ClockCap == 200      \* the ghost clock of a stagger saturates here (above every item delay)
MaxStarts == 2       \* number of animations that may be installed in the engine

(* Inputs. *)
DtSet == {0, 50, 100}            \* tick deltas, ms
DurationSet == {0, 100, 200}     \* tween durations, ms
DelaySet == {0, 100}             \* start delays, ms
FineDurationSet == {54}          \* tween durations off the grid of DtSet, ms
FineDts == {0, 18}               \* the tick deltas an animation holding such a tween gets, ms

----------------------------------------------------------------------------
(* f32 as the hardware computes it.  A finite number is m * 2^e with
   2^23 <= |m| < 2^24 and -149 <= e <= 104, or a subnormal with 0 < |m| < 2^23 and
   e = -149, or zero (m = 0, e = 0; zero carries no sign); beyond the largest finite
   number lie the two infinities, and NaN is what an undefined operation gives.
   Every operation rounds its exact result to the nearest number, ties to the even
   mantissa (IEEE 754 single precision). *)

Abs(x) == IF x < 0 THEN -x ELSE x

Min(a, b) == IF a < b THEN a ELSE b
Max(a, b) == IF a > b THEN a ELSE b

F32Zero == [m |-> 0, e |-> 0]

F32One == [m |-> 2^23, e |-> -23]

\* +inf and -inf
F32Inf(sign) == [m |-> sign * 2^23, e |-> 105]

F32NaN == [m |-> 0, e |-> 105]

IsNaN(a) == a = F32NaN

IsInf(a) == a.e = 105 /\ a.m # 0

Sign(x) == IF x < 0 THEN -1 ELSE 1

RECURSIVE BitLen(_)
BitLen(n) == IF n = 0 THEN 0 ELSE 1 + BitLen(n \div 2)

\* q + r / (2 * half), 0 <= r < 2 * half, rounded to the nearest integer, ties to
\* even; more tells that the exact remainder lies strictly above r.
RoundTo(q, r, half, more) ==
    IF r > half \/ (r = half /\ (more \/ q % 2 = 1)) THEN q + 1 ELSE q

\* n / 2^s rounded, 0 <= n < 2^31, s >= 0
RoundShift(n, s, more) ==
    IF s = 0 THEN n
    ELSE IF s > 31 THEN 0
    ELSE IF s = 31 THEN RoundTo(0, n, 2^30, more)
    ELSE RoundTo(n \div 2^s, n % 2^s, 2^(s - 1), more)

\* The f32 of mantissa q <= 2^24 at exponent e >= -149: a rounded mantissa that
\* reached 2^24 is renormalised, and what lies beyond the largest finite number is
\* infinite.
F32Pack(sign, q, e) ==
    IF q = 0 THEN F32Zero
    ELSE IF q = 2^24 THEN (IF e + 1 > 104 THEN F32Inf(sign)
                           ELSE [m |-> sign * 2^23, e |-> e + 1])
    ELSE IF e > 104 THEN F32Inf(sign)
    ELSE [m |-> sign * q, e |-> e]

\* The f32 nearest to sign * n * 2^e (n taken a little larger when more is set),
\* 0 <= n < 2^31, len = BitLen(n): the mantissa keeps 24 bits, fewer in the
\* subnormal range, where the exponent stays at -149.
F32RoundLen(sign, n, e, more, len) ==
    IF Max(len - 24, -149 - e) > 0
    THEN F32Pack(sign, RoundShift(n, Max(len - 24, -149 - e), more),
                 e + Max(len - 24, -149 - e))
    ELSE F32Pack(sign, n * 2^Min(24 - len, e + 149), e - Min(24 - len, e + 149))

F32Round(sign, n, e, more) == F32RoundLen(sign, n, e, more, BitLen(n))

\* n as f32
F32FromInt(n) == F32Round(Sign(n), Abs(n), 0, FALSE)

\* A nonzero finite number with its mantissa brought to 24 bits (the exponent of a
\* subnormal goes below -149).
F32Norm(a) ==
    IF Abs(a.m) >= 2^23 THEN a
    ELSE [m |-> a.m * 2^(24 - BitLen(Abs(a.m))), e |-> a.e - (24 - BitLen(Abs(a.m)))]

\* f32::abs
F32Abs(a) == [a EXCEPT !.m = Abs(a.m)]

\* -a
F32Neg(a) == [a EXCEPT !.m = -a.m]

\* a < b
F32Lt(a, b) ==
    CASE IsNaN(a) \/ IsNaN(b) -> FALSE
      [] a.m = 0 -> b.m > 0
      [] b.m = 0 -> a.m < 0
      [] a.m < 0 /\ b.m > 0 -> TRUE
      [] a.m > 0 /\ b.m < 0 -> FALSE
      [] a.m > 0 /\ b.m > 0 -> a.e < b.e \/ (a.e = b.e /\ a.m < b.m)
      [] OTHER -> a.e > b.e \/ (a.e = b.e /\ a.m < b.m)

\* a <= b
F32Le(a, b) == ~IsNaN(a) /\ (a = b \/ F32Lt(a, b))

\* f32::min, f32::max: a NaN operand is ignored
F32Min(a, b) == IF IsNaN(a) THEN b ELSE IF F32Lt(b, a) THEN b ELSE a

F32Max(a, b) == IF IsNaN(a) THEN b ELSE IF F32Lt(a, b) THEN b ELSE a

\* f32::clamp(lo, hi): a NaN stays a NaN
F32Clamp(a, lo, hi) == IF F32Lt(a, lo) THEN lo ELSE IF F32Lt(hi, a) THEN hi ELSE a

\* a + b for nonzero finite a, b with a.e >= b.e: the mantissas are aligned with three
\* guard bits; bq is b's aligned magnitude and lost tells that bits of b fell off.
F32AddAligned(a, b, bq, lost) ==
    IF Sign(a.m) = Sign(b.m)
    THEN F32Round(Sign(a.m), Abs(a.m) * 8 + bq, a.e - 3, lost)
    ELSE IF lost
    THEN F32Round(Sign(a.m), Abs(a.m) * 8 - bq - 1, a.e - 3, TRUE)
    ELSE F32Round(Sign(a.m) * Sign(Abs(a.m) * 8 - bq), Abs(Abs(a.m) * 8 - bq),
                  a.e - 3, FALSE)

F32AddOrdered(a, b) ==
    IF a.e - b.e >= 28
    THEN F32AddAligned(a, b, 0, TRUE)
    ELSE F32AddAligned(a, b, (Abs(b.m) * 8) \div 2^(a.e - b.e),
                       (Abs(b.m) * 8) % 2^(a.e - b.e) # 0)

\* a + b
F32Add(a, b) ==
    IF IsNaN(a) \/ IsNaN(b) THEN F32NaN
    ELSE IF IsInf(a) THEN (IF IsInf(b) /\ a.m # b.m THEN F32NaN ELSE a)
    ELSE IF IsInf(b) THEN b
    ELSE IF a.m = 0 THEN b
    ELSE IF b.m = 0 THEN a
    ELSE IF a.e >= b.e THEN F32AddOrdered(a, b) ELSE F32AddOrdered(b, a)

\* a - b
F32Sub(a, b) == F32Add(a, F32Neg(b))

\* x * y for 0 <= x, y < 2^24 as hi * 2^24 + lo, computed on 12-bit halves.
WideMulMid(x, y) ==
    (x \div 4096) * (y % 4096) + (x % 4096) * (y \div 4096)
        + (((x % 4096) * (y % 4096)) \div 4096)

WideMul(x, y) ==
    [hi |-> (x \div 4096) * (y \div 4096) + (WideMulMid(x, y) \div 4096),
     lo |-> (WideMulMid(x, y) % 4096) * 4096 + (((x % 4096) * (y % 4096)) % 4096)]

\* (w.hi * 2^24 + w.lo) / 2^s rounded to the nearest integer, ties to even.
WideRoundShift(w, s) ==
    IF s <= 0 THEN (w.hi * 2^24 + w.lo) * 2^(-s)
    ELSE IF s <= 24
    THEN RoundTo(w.hi * 2^(24 - s) + (w.lo \div 2^s), w.lo % 2^s, 2^(s - 1), FALSE)
    ELSE IF s > 54 THEN 0
    ELSE RoundTo(w.hi \div 2^(s - 24), w.hi % 2^(s - 24), 2^(s - 25), w.lo > 0)

\* The product w of two 24-bit mantissas, 2^46 <= w < 2^48, at exponent e: its
\* leading 30 bits are rounded, the rest tells whether anything lies beyond them.
F32MulWide(sign, w, e) ==
    F32RoundLen(sign, w.hi * 64 + (w.lo \div 2^18), e + 18, w.lo % 2^18 # 0,
                IF w.hi >= 2^23 THEN 30 ELSE 29)

F32MulFinite(a, b) ==
    F32MulWide(Sign(a.m) * Sign(b.m), WideMul(Abs(a.m), Abs(b.m)), a.e + b.e)

\* a * b
F32Mul(a, b) ==
    IF IsNaN(a) \/ IsNaN(b) THEN F32NaN
    ELSE IF IsInf(a) \/ IsInf(b)
    THEN (IF a.m = 0 \/ b.m = 0 THEN F32NaN ELSE F32Inf(Sign(a.m) * Sign(b.m)))
    ELSE IF a.m = 0 \/ b.m = 0 THEN F32Zero
    ELSE F32MulFinite(F32Norm(a), F32Norm(b))

\* Long division, seven quotient bits at a time: q and the remainder r of the
\* division by y so far, k steps to go.
RECURSIVE LongDiv(_, _, _, _)
LongDiv(q, r, y, k) ==
    IF k = 0 THEN [q |-> q, r |-> r]
    ELSE LongDiv(q * 128 + ((r * 128) \div y), (r * 128) % y, y, k - 1)

F32DivLong(sign, d, e, len) == F32RoundLen(sign, d.q, e - 28, d.r # 0, len)

F32DivFinite(a, b) ==
    F32DivLong(Sign(a.m) * Sign(b.m),
               LongDiv(Abs(a.m) \div Abs(b.m), Abs(a.m) % Abs(b.m), Abs(b.m), 4),
               a.e - b.e, IF Abs(a.m) >= Abs(b.m) THEN 29 ELSE 28)

\* a / b
F32Div(a, b) ==
    IF IsNaN(a) \/ IsNaN(b) THEN F32NaN
    ELSE IF IsInf(a) THEN (IF IsInf(b) THEN F32NaN ELSE F32Inf(Sign(a.m) * Sign(b.m)))
    ELSE IF IsInf(b) THEN F32Zero
    ELSE IF b.m = 0 THEN (IF a.m = 0 THEN F32NaN ELSE F32Inf(Sign(a.m)))
    ELSE IF a.m = 0 THEN F32Zero
    ELSE F32DivFinite(F32Norm(a), F32Norm(b))

\* The quotient n / d of two integers, |n| >= 2^24 > d > 0, carried to at least 25
\* bits, with its remainder.
WideQuotient(n, d) ==
    LongDiv(n \div d, n % d, d, Max(0, 31 - BitLen(n \div d)) \div 7)

F32OfQuotient(sign, w, k) == F32Round(sign, w.q, -7 * k, w.r # 0)

\* The f32 nearest to n / d, 0 < d < 2^24: a decimal literal, or a number of
\* thousandths, hundredths or tenths handed over as f32.
F32(n, d) ==
    IF Abs(n) < 2^24 THEN F32Div(F32FromInt(n), F32FromInt(d))
    ELSE F32OfQuotient(Sign(n), WideQuotient(Abs(n), d),
                       Max(0, 31 - BitLen(Abs(n) \div d)) \div 7)

\* The integer part of a, as the cast "as i32" takes it: toward zero, saturating, 0
\* for a NaN.
F32ToInt(a) ==
    IF a.m = 0 THEN 0
    ELSE IF a.e >= 8 THEN Sign(a.m) * 2147483647 - (IF a.m < 0 THEN 1 ELSE 0)
    ELSE IF a.e >= 0 THEN a.m * 2^a.e
    ELSE IF a.e < -30 THEN 0
    ELSE Sign(a.m) * (Abs(a.m) \div 2^(-a.e))

\* Duration::from_millis, in nanoseconds
DurationFromMillis(ms) == ms * 1000000

\* Duration::from_secs_f32 of a value below 2^-31 is zero; above, the nanoseconds
\* m * 2^e * 10^9 = m * 5^9 * 2^(e + 9), rounded to the nearest, ties to even.
DurationOfF32(f) ==
    IF f.m = 0 \/ f.e + 24 <= -31 THEN 0
    ELSE WideRoundShift(WideMul(f.m, 1953125), -(f.e + 9))

\* Duration::from_secs_f32(dt) in nanoseconds, for a frame time of dt ms.
DurationFromSecsF32(dt) == DurationOfF32(F32(dt, 1000))

\* Duration::as_secs_f32: secs as f32 + nanos as f32 / 1e9
AsSecsF32(ns) ==
    F32Add(F32FromInt(ns \div 1000000000),
           F32Div(F32FromInt(ns % 1000000000), F32FromInt(1000000000)))

----------------------------------------------------------------------------
(* Animatable for f32: animatable.rs *)

Zero == F32Zero

\* f32::epsilon(): 0.001
Epsilon == F32(1, 1000)

Magnitude(x) == F32Abs(x)

Scale(x, factor) == F32Mul(x, factor)

Add(a, b) == F32Add(a, b)

Sub(a, b) == F32Sub(a, b)

\* self * (1.0 - t) + target * t for a t already clamped
InterpolateClamped(a, b, t) == F32Add(F32Mul(a, F32Sub(F32One, t)), F32Mul(b, t))

\* f32::interpolate: t.clamp(0.0, 1.0), then self * (1.0 - t) + target * t.  The
\* variant drops the first term.
InterpolateFromZero(a, b, t) == F32Mul(b, F32Clamp(t, F32Zero, F32One))

Interpolate(a, b, t) == InterpolateClamped(a, b, F32Clamp(t, F32Zero, F32One))

\* easer Linear::ease_in_out(t, 0, 1, 1) = 1 * t / 1 + 0
LinearEase(t) == t

\* The whole number n as a value.
V(n) == F32FromInt(n)

----------------------------------------------------------------------------
(* Timing state machine: animation/timing.rs *)

NoCallback == 0

DefaultTiming ==
    [loop_mode |-> "None", count |-> 0, direction |-> "Forward", delay |-> 0,
     current_loop |-> 0, delay_elapsed |-> FALSE, on_complete |-> NoCallback]

\* The remaining delay is consumed by a tick that is at least as long:
\* dt_duration >= self.delay.  The variant asks for a strictly longer tick.
DelayConsumedStrictly(dt_duration, delay) == dt_duration > delay

DelayConsumed(dt_duration, delay) == dt_duration >= delay

\* AnimationTiming::handle_delay; timing.delay is the remaining delay in nanoseconds
\* and dt the frame time in ms, converted by Duration::from_secs_f32.
HandleDelay(tm, dt) ==
    IF tm.delay_elapsed THEN [timing |-> tm, ret |-> TRUE]
    ELSE IF tm.delay = 0 THEN [timing |-> [tm EXCEPT !.delay_elapsed = TRUE], ret |-> TRUE]
    ELSE IF DelayConsumed(DurationFromSecsF32(dt), tm.delay)
         THEN [timing |-> [tm EXCEPT !.delay = 0, !.delay_elapsed = TRUE], ret |-> TRUE]
         ELSE [timing |-> [tm EXCEPT !.delay = tm.delay - DurationFromSecsF32(dt)],
               ret |-> FALSE]

ToggleDirection(d) ==
    CASE d = "Alternate" -> "AlternateReverse"
      [] d = "AlternateReverse" -> "Alternate"
      [] OTHER -> d

\* The callback invocations of one handle_loop_completion call: the callback, if any,
\* is called once.  The variant calls it twice.
FireOnCompleteTwice(tm) ==
    IF tm.on_complete # NoCallback THEN <<tm.on_complete, tm.on_complete>> ELSE <<>>

FireOnComplete(tm) == IF tm.on_complete # NoCallback THEN <<tm.on_complete>> ELSE <<>>

\* A Count(n) loop is exhausted once current_loop has reached n.
CountExhaustedLate(loops, n) == loops > n

CountExhausted(loops, n) == loops >= n

\* The variant of handle_loop_completion that treats every loop mode as None.
StopAfterFirstCycle(tm) == [timing |-> tm, ret |-> FALSE, fired |-> FireOnComplete(tm)]

\* AnimationTiming::handle_loop_completion
HandleLoopCompletion(tm) ==
    CASE tm.loop_mode = "None" ->
            [timing |-> tm, ret |-> FALSE, fired |-> FireOnComplete(tm)]
      [] tm.loop_mode = "Infinite" ->
            [timing |-> [tm EXCEPT !.current_loop = tm.current_loop + 1,
                                   !.direction = ToggleDirection(tm.direction)],
             ret |-> TRUE, fired |-> <<>>]
      [] tm.loop_mode = "Count" ->
            IF CountExhausted(tm.current_loop + 1, tm.count)
            THEN [timing |-> [tm EXCEPT !.current_loop = tm.current_loop + 1],
                  ret |-> FALSE, fired |-> FireOnComplete(tm)]
            ELSE [timing |-> [tm EXCEPT !.current_loop = tm.current_loop + 1,
                                        !.direction = ToggleDirection(tm.direction)],
                  ret |-> TRUE, fired |-> <<>>]

\* AnimationTiming::is_reverse
IsReverse(tm) ==
    CASE tm.direction = "Forward" -> FALSE
      [] tm.direction = "Reverse" -> TRUE
      [] tm.direction = "Alternate" -> tm.current_loop % 2 = 1
      [] tm.direction = "AlternateReverse" -> tm.current_loop % 2 = 0

----------------------------------------------------------------------------
(* Result of one Animation::update call:                                   *)
(*   anim     the animation after the call                                 *)
(*   state    "Active" or "Completed"                                      *)
(*   value, velocity   the returned pair                                   *)
(*   fired    the callbacks invoked during the call, in order              *)
(*   loopRet  "none" if handle_loop_completion was not called, else its    *)
(*            result "true" / "false"                                      *)
(*   trace    the member updates made during the call, in call order: the  *)
(*            member, the dt passed to it and what it returned             *)

Result(a, st, val, vel, fired, loopRet, trace) ==
    [anim |-> a, state |-> st, value |-> val, velocity |-> vel,
     fired |-> fired, loopRet |-> loopRet, trace |-> trace]

----------------------------------------------------------------------------
(* Tween engine: animations/tween.rs.  The easing of the tween is the     *)
(* default, Linear::ease_in_out.                                           *)

\* TweenAnimation::new; duration is tween.duration, in nanoseconds
NewTween(initial, target, duration, timing) ==
    [kind |-> "tween", initial |-> initial, current |-> initial, target |-> target,
     duration |-> duration, timing |-> timing, elapsed |-> 0, is_active |-> TRUE]

\* Tween::create_animation
TweenCreateAnimation(duration, initial, target) ==
    NewTween(initial, target, duration, DefaultTiming)

\* progress = (secs / duration).clamp(0.0, 1.0), or 1.0 when duration > 0.0 fails;
\* the variant treats a zero duration as not yet begun
ProgressZeroAtNoDuration(secs, duration) ==
    IF F32Lt(F32Zero, duration)
    THEN F32Clamp(F32Div(secs, duration), F32Zero, F32One)
    ELSE F32Zero

Progress(secs, duration) ==
    IF F32Lt(F32Zero, duration)
    THEN F32Clamp(F32Div(secs, duration), F32Zero, F32One)
    ELSE F32One

\* if self.timing.is_reverse() { progress = 1.0 - progress }
Directed(progress, reverse) == IF reverse THEN F32Sub(F32One, progress) ELSE progress

\* The end value a completed cycle snaps to: initial in reverse, target otherwise; the
\* variant always snaps to target
TweenSnapForward(a, reverse) == a.target

TweenSnap(a, reverse) == IF reverse THEN a.initial ELSE a.target

\* The velocity approximation: prev_value.sub(&self.current).scale(1.0 / dt) for
\* dt > 0.0, the previous progress taken from elapsed.as_secs_f32() - dt without the
\* direction applied
TweenVelocity(a, secs, duration, current, dt) ==
    IF F32Lt(F32Zero, dt)
    THEN Scale(Sub(Interpolate(a.initial, a.target,
                               LinearEase(Progress(F32Sub(secs, dt), duration))),
                   current),
               F32Div(F32One, dt))
    ELSE Zero

\* progress <= 0.0 in reverse, progress >= 1.0 otherwise
TweenCompleted(progress, reverse) ==
    IF reverse THEN F32Le(progress, F32Zero) ELSE F32Le(F32One, progress)

\* TweenAnimation::update once the cycle has completed, lc being what
\* handle_loop_completion returned
TweenAfterCycle(a, elapsed, snapped, velocity, lc) ==
    IF lc.ret
    THEN Result([a EXCEPT !.timing = lc.timing, !.current = snapped, !.elapsed = 0],
                "Active", snapped, velocity, lc.fired, "true", <<>>)
    ELSE Result([a EXCEPT !.timing = lc.timing, !.current = snapped,
                          !.elapsed = elapsed, !.is_active = FALSE],
                "Completed", snapped, Zero, lc.fired, "false", <<>>)

\* TweenAnimation::update from the interpolated value on
TweenFinish(a, tm, elapsed, progress, current, velocity) ==
    IF TweenCompleted(progress, IsReverse(tm))
    THEN TweenAfterCycle(a, elapsed, TweenSnap(a, IsReverse(tm)), velocity,
                         HandleLoopCompletion(tm))
    ELSE Result([a EXCEPT !.timing = tm, !.current = current, !.elapsed = elapsed],
                "Active", current, velocity, <<>>, "none", <<>>)

\* TweenAnimation::update from the directed progress on
TweenAtProgress(a, tm, elapsed, secs, duration, progress, current, dt) ==
    TweenFinish(a, tm, elapsed, progress, current,
                TweenVelocity(a, secs, duration, current, dt))

\* TweenAnimation::update with the elapsed time advanced
TweenAtTime(a, tm, elapsed, secs, duration, progress, dt) ==
    TweenAtProgress(a, tm, elapsed, secs, duration, progress,
                    Interpolate(a.initial, a.target, LinearEase(progress)), dt)

\* TweenAnimation::update after the delay: self.elapsed += Duration::from_secs_f32(dt)
TweenStep(a, tm, elapsed, secs, duration, dt) ==
    TweenAtTime(a, tm, elapsed, secs, duration,
                Directed(Progress(secs, duration), IsReverse(tm)), dt)

\* TweenAnimation::update after handle_delay has returned hd
TweenAfterDelay(a, dt, hd) ==
    IF ~hd.ret
    THEN Result([a EXCEPT !.timing = hd.timing], "Active", a.current, Zero,
                <<>>, "none", <<>>)
    ELSE TweenStep(a, hd.timing, a.elapsed + DurationFromSecsF32(dt),
                   AsSecsF32(a.elapsed + DurationFromSecsF32(dt)),
                   AsSecsF32(a.duration), F32(dt, 1000))

\* TweenAnimation::update
TweenUpdate(a, dt) ==
    IF ~a.is_active THEN Result(a, "Completed", a.current, Zero, <<>>, "none", <<>>)
    ELSE TweenAfterDelay(a, dt, HandleDelay(a.timing, dt))

\* TweenAnimation::value
TweenValue(a) == a.current

\* TweenAnimation::reset
TweenReset(a) ==
    [a EXCEPT !.current = a.initial, !.elapsed = 0, !.timing.current_loop = 0,
              !.timing.delay_elapsed = FALSE, !.is_active = TRUE]

----------------------------------------------------------------------------
(* Spring engine: spring.rs *)

DtCap == 64     \* dt.min(0.064), ms

\* Option<f32>: None, or Some(v) holding the f32 v
None == <<>>

Some(v) == <<v>>

\* Spring::default(): stiffness 100.0, damping 10.0, mass 1.0 (tenths), no initial
\* velocity
DefaultSpring ==
    [stiffness |-> 1000, damping |-> 100, mass |-> 10, initial_velocity |-> None]

\* The floors of the Spring setters, in tenths: stiffness.max(0.1), damping.max(0.0),
\* mass.max(0.1)
MinStiffness == 1
MinDamping == 0
MinMass == 1

\* Spring::stiffness, Spring::damping, Spring::mass
SpringStiffness(spring, stiffness) ==
    [spring EXCEPT !.stiffness = Max(stiffness, MinStiffness)]

SpringDamping(spring, damping) == [spring EXCEPT !.damping = Max(damping, MinDamping)]

SpringMass(spring, mass) == [spring EXCEPT !.mass = Max(mass, MinMass)]

\* Spring::initial_velocity
SpringInitialVelocity(spring, velocity) ==
    [spring EXCEPT !.initial_velocity = Some(velocity)]

\* Spring::create_animation
SpringCreateAnimation(spring, initial, target, initial_velocity) ==
    [kind |-> "spring", initial |-> initial, current |-> initial,
     target |-> target, velocity |-> initial_velocity,
     spring |-> spring, timing |-> DefaultTiming,
     is_active |-> TRUE, completion_scale |-> 1]

\* On completion update_physics snaps the value: self.current = self.target.  The
\* variant leaves the integrated value in place.
KeepIntegrated(current, target) == current

SnapToTarget(current, target) == target

\* animations/spring.rs: completion_epsilon = T::epsilon() * 1000.0
LenientScale == 1000

\* The threshold of the completion test: the raw epsilon() in spring.rs, the scaled
\* one in animations/spring.rs.
CompletionEpsilon(a) == F32Mul(Epsilon, F32FromInt(a.completion_scale))

\* The completion test of update_physics.  The variant waits for exact rest at the
\* target.
SettledExactly(velocity, displacement, epsilon) ==
    velocity = F32Zero /\ displacement = F32Zero

Settled(velocity, displacement, epsilon) ==
    F32Lt(Magnitude(velocity), epsilon) /\ F32Lt(Magnitude(displacement), epsilon)

\* let dt = dt.min(0.064)
PhysicsDt(dt0) == F32Min(F32(dt0, 1000), F32(DtCap, 1000))

\* displacement = target - current
Displacement(a) == Sub(a.target, a.current)

\* (displacement * stiffness - velocity * damping) * (1.0 / mass)
Acceleration(a) ==
    Scale(Sub(Scale(Displacement(a), F32(a.spring.stiffness, 10)),
              Scale(a.velocity, F32(a.spring.damping, 10))),
          F32Div(F32One, F32(a.spring.mass, 10)))

\* The velocity update_physics integrates from the state before the tick:
\* self.velocity + acceleration * dt
SteppedVelocity(a, dt0) == Add(a.velocity, Scale(Acceleration(a), PhysicsDt(dt0)))

\* self.current + self.velocity * dt, with the velocity just integrated
SteppedCurrent(a, velocity, dt0) == Add(a.current, Scale(velocity, PhysicsDt(dt0)))

\* update_physics from the integrated velocity on
PhysicsStep(a, velocity, dt0) ==
    IF Settled(velocity, Displacement(a), CompletionEpsilon(a))
    THEN [anim |-> [a EXCEPT !.velocity = velocity,
                            !.current = SnapToTarget(SteppedCurrent(a, velocity, dt0),
                                                     a.target)],
          still_active |-> FALSE]
    ELSE [anim |-> [a EXCEPT !.velocity = velocity,
                            !.current = SteppedCurrent(a, velocity, dt0)],
          still_active |-> TRUE]

\* SpringAnimation::update_physics; still_active is the returned bool
UpdatePhysics(a, dt0) == PhysicsStep(a, SteppedVelocity(a, dt0), dt0)

\* The value a spring takes when its timing continues with another cycle:
\* self.current = self.initial.  The variant carries on from where the cycle ended.
LoopContinue(initial, current) == current

LoopRestart(initial, current) == initial

\* SpringAnimation::value
SpringValue(a) == a.current

\* SpringAnimation::update after update_physics has returned false on b
SpringAfterCycle(b, lc) ==
    IF lc.ret
    THEN Result([b EXCEPT !.timing = lc.timing,
                          !.current = LoopRestart(b.initial, b.current),
                          !.velocity = Zero],
                "Active", LoopRestart(b.initial, b.current), Zero,
                lc.fired, "true", <<>>)
    ELSE Result([b EXCEPT !.timing = lc.timing, !.is_active = FALSE],
                "Completed", SpringValue(b), Zero, lc.fired, "false", <<>>)

\* SpringAnimation::update after the delay, ph being what update_physics returned
SpringAfterPhysics(ph) ==
    IF ph.still_active
    THEN Result(ph.anim, "Active", SpringValue(ph.anim), ph.anim.velocity,
                <<>>, "none", <<>>)
    ELSE SpringAfterCycle(ph.anim, HandleLoopCompletion(ph.anim.timing))

\* SpringAnimation::update after handle_delay has returned hd
SpringAfterDelay(a, dt, hd) ==
    IF ~hd.ret
    THEN Result([a EXCEPT !.timing = hd.timing], "Active", SpringValue(a), Zero,
                <<>>, "none", <<>>)
    ELSE SpringAfterPhysics(UpdatePhysics([a EXCEPT !.timing = hd.timing], dt))

\* SpringAnimation::update
SpringUpdate(a, dt) ==
    IF ~a.is_active THEN Result(a, "Completed", SpringValue(a), Zero, <<>>, "none", <<>>)
    ELSE SpringAfterDelay(a, dt, HandleDelay(a.timing, dt))

\* SpringAnimation::reset
SpringReset(a) ==
    [a EXCEPT !.current = a.initial, !.velocity = Zero, !.timing.current_loop = 0,
              !.timing.delay_elapsed = FALSE, !.is_active = TRUE]

----------------------------------------------------------------------------
(* Keyframe engine: animations/keyframe.rs.  A key position 0.0 .. 1.0 is   *)
(* given in hundredths and stands for the f32 nearest to it; the keys of   *)
(* the BTreeMap are kept as these hundredths, whose order is that of the   *)
(* f32 positions.                                                          *)

PositionScale == 100     \* key position 1.0
NoKey == -1              \* Option::None for a surrounding keyframe

\* The OrderedFloat<f32> a key stands for
KeyPosition(k) == F32(k, PositionScale)

\* Keyframe::new / Keyframe::with_easing; easing "none" is Option::None
Keyframe(value, easing) == [value |-> value, easing |-> easing]

\* easer Quad::ease_in(t, 0, 1, 1) = 1 * (t / 1) * (t / 1) + 0
QuadEaseIn(t) == F32Mul(t, t)

\* prev_kf.easing.map_or_else(Linear::ease_in_out, |easing| easing(..))
Ease(easing, t) ==
    CASE easing = "none" -> LinearEase(t)
      [] easing = "quad_in" -> QuadEaseIn(t)

\* KeyframeAnimation::new: keyframes at 0% and 100% holding the zero value; duration
\* is in nanoseconds.  The field added is history: the positions the caller has added
\* keyframes at.
NewKeyframes(duration) ==
    [kind |-> "keyframe",
     keyframes |-> [k \in {0, PositionScale} |-> Keyframe(Zero, "none")],
     added |-> {},
     duration |-> duration, timing |-> DefaultTiming, current_time |-> 0,
     current |-> Zero, velocity |-> Zero, prev_time |-> 0, prev_value |-> Zero,
     is_active |-> TRUE]

\* position.clamp(0.0, 1.0)
ClampPosition(position) ==
    IF position < 0 THEN 0 ELSE Min(position, PositionScale)

\* KeyframeAnimation::add_keyframe_with_easing (BTreeMap::insert replaces an entry)
AddKeyframeWithEasing(a, position, value, easing) ==
    LET pos == ClampPosition(position) IN
    [a EXCEPT !.keyframes = [k \in DOMAIN a.keyframes \cup {pos} |->
                                IF k = pos THEN Keyframe(value, easing)
                                ELSE a.keyframes[k]],
              !.added = a.added \cup {pos}]

\* KeyframeAnimation::add_keyframe
AddKeyframe(a, position, value) == AddKeyframeWithEasing(a, position, value, "none")

\* KeyframeAnimation::with_timing
WithTiming(a, timing) == [a EXCEPT !.timing = timing]

\* The keys of the BTreeMap in iteration order.
RECURSIVE SortedKeys(_)
SortedKeys(keys) ==
    IF keys = {} THEN <<>>
    ELSE LET least == CHOOSE k \in keys : \A j \in keys : k <= j
         IN <<least>> \o SortedKeys(keys \ {least})

\* keyframes.iter().next() and keyframes.iter().next_back()
FirstKeyframe(a) == a.keyframes[SortedKeys(DOMAIN a.keyframes)[1]]
LastKeyframe(a) ==
    a.keyframes[SortedKeys(DOMAIN a.keyframes)[Cardinality(DOMAIN a.keyframes)]]

\* *pos <= OrderedFloat(position)
AtOrBefore(key, position) == F32Le(KeyPosition(key), position)

\* the for loop of find_surrounding_keyframes from the i-th key on
RECURSIVE ScanKeyframes(_, _, _, _)
ScanKeyframes(keys, i, prev, position) ==
    IF i > Len(keys) THEN [prev |-> prev, next |-> NoKey]
    ELSE IF AtOrBefore(keys[i], position)
    THEN ScanKeyframes(keys, i + 1, keys[i], position)
    ELSE [prev |-> prev, next |-> keys[i]]

\* KeyframeAnimation::find_surrounding_keyframes
FindSurroundingKeyframes(a, position) ==
    ScanKeyframes(SortedKeys(DOMAIN a.keyframes), 1, NoKey, position)

\* segment_length = next_pos - prev_pos
SegmentLength(prev, next) == F32Sub(KeyPosition(next), KeyPosition(prev))

\* (position - prev_pos) / segment_length, or 0.0 for an empty segment
SegmentPosition(position, prev, next) ==
    IF F32Lt(F32Zero, SegmentLength(prev, next))
    THEN F32Div(F32Sub(position, KeyPosition(prev)), SegmentLength(prev, next))
    ELSE F32Zero

\* The easing applied to a segment: that of the keyframe the segment starts from.
\* The variant takes that of the keyframe it ends at.
NextKeyframeEasing(prev_kf, next_kf) == next_kf.easing

SegmentEasing(prev_kf, next_kf) == prev_kf.easing

\* The value update computes between the surrounding keyframes sk
KeyframeBetween(a, position, sk) ==
    IF sk.prev # NoKey /\ sk.next # NoKey
    THEN Interpolate(a.keyframes[sk.prev].value, a.keyframes[sk.next].value,
                     Ease(SegmentEasing(a.keyframes[sk.prev], a.keyframes[sk.next]),
                          SegmentPosition(position, sk.prev, sk.next)))
    ELSE IF sk.prev # NoKey THEN a.keyframes[sk.prev].value
    ELSE a.current

\* The value update computes for a position
KeyframeValueAt(a, position) ==
    KeyframeBetween(a, position, FindSurroundingKeyframes(a, position))

\* The keyframe a finished cycle jumps to when the loop continues.
LoopStartKeyframe(a, reverse) == IF reverse THEN LastKeyframe(a) ELSE FirstKeyframe(a)

\* The keyframe a finished animation snaps to.
FinalKeyframe(a, reverse) == IF reverse THEN FirstKeyframe(a) ELSE LastKeyframe(a)

\* (current_time.as_secs_f32() / duration.as_secs_f32()).clamp(0.0, 1.0), then the
\* direction
KeyframePosition(b) ==
    Directed(F32Clamp(F32Div(AsSecsF32(b.current_time), AsSecsF32(b.duration)),
                      F32Zero, F32One),
             IsReverse(b.timing))

\* self.velocity = self.prev_value.sub(&self.current).scale(dt) for a dt of at least
\* one nanosecond, else the velocity stays
KeyframeVelocity(b, current, dt) ==
    IF DurationFromSecsF32(dt) > 0
    THEN Scale(Sub(b.prev_value, current), F32(dt, 1000))
    ELSE b.velocity

\* KeyframeAnimation::update with the value and velocity of this tick
KeyframeMoved(b, current, velocity) ==
    Result([b EXCEPT !.current = current, !.velocity = velocity],
           "Active", current, velocity, <<>>, "none", <<>>)

\* KeyframeAnimation::update with the value of this tick
KeyframeAtValue(b, current, dt) ==
    KeyframeMoved(b, current, KeyframeVelocity(b, current, dt))

\* KeyframeAnimation::update at the end of a cycle, lc being what
\* handle_loop_completion returned and kf the keyframe jumped to
KeyframeAfterCycle(b, lc, kf) ==
    IF lc.ret
    THEN Result([b EXCEPT !.timing = lc.timing, !.current_time = 0, !.prev_time = 0,
                          !.current = kf.value, !.prev_value = kf.value],
                "Active", kf.value, Zero, lc.fired, "true", <<>>)
    ELSE Result([b EXCEPT !.timing = lc.timing, !.is_active = FALSE,
                          !.current = kf.value],
                "Completed", kf.value, Zero, lc.fired, "false", <<>>)

\* The keyframe the end of a cycle moves to
CycleKeyframe(b, lc) ==
    IF lc.ret THEN LoopStartKeyframe(b, IsReverse(lc.timing))
    ELSE FinalKeyframe(b, IsReverse(lc.timing))

\* KeyframeAnimation::update at the end of a cycle
KeyframeCycleEnd(b, lc) == KeyframeAfterCycle(b, lc, CycleKeyframe(b, lc))

\* KeyframeAnimation::update after the delay: b carries the advanced clock
KeyframeStep(b, dt) ==
    IF b.current_time >= b.duration
    THEN KeyframeCycleEnd(b, HandleLoopCompletion(b.timing))
    ELSE KeyframeAtValue(b, KeyframeValueAt(b, KeyframePosition(b)), dt)

\* KeyframeAnimation::update after handle_delay has returned hd
KeyframeAfterDelay(a, dt, hd) ==
    IF ~hd.ret
    THEN Result([a EXCEPT !.timing = hd.timing], "Active", a.current, Zero,
                <<>>, "none", <<>>)
    ELSE KeyframeStep([a EXCEPT !.timing = hd.timing, !.prev_time = a.current_time,
                                !.prev_value = a.current,
                                !.current_time = a.current_time + DurationFromSecsF32(dt)],
                      dt)

\* KeyframeAnimation::update
KeyframeUpdate(a, dt) ==
    IF ~a.is_active THEN Result(a, "Completed", a.current, Zero, <<>>, "none", <<>>)
    ELSE KeyframeAfterDelay(a, dt, HandleDelay(a.timing, dt))

\* KeyframeAnimation::value
KeyframeValue(a) == a.current

\* KeyframeAnimation::reset: the clock goes back to zero and the value to the
\* first keyframe's; timing.delay and timing.direction are left as they are.
KeyframeReset(a) ==
    [a EXCEPT !.current_time = 0, !.prev_time = 0,
              !.current = FirstKeyframe(a).value,
              !.prev_value = FirstKeyframe(a).value,
              !.velocity = Zero,
              !.timing.current_loop = 0, !.timing.delay_elapsed = FALSE,
              !.is_active = TRUE]

----------------------------------------------------------------------------
(* Dynamic dispatch over the animations a combinator holds               *)
(* (Box<dyn Animation>); the operators are defined after the combinators. *)

RECURSIVE LeafUpdate(_, _)
RECURSIVE LeafValue(_)
RECURSIVE LeafReset(_)

\* One member update made by a combinator.
MemberCall(i, dt, r) ==
    [member |-> i, dt |-> dt, state |-> r.state, value |-> r.value, velocity |-> r.velocity]

----------------------------------------------------------------------------
(* Sequence engine: sequence.rs.  current_step is 0-based as in the source, *)
(* steps[current_step + 1] is the current step.                             *)

\* AnimationSequence::default
NewSequence ==
    [kind |-> "sequence", steps |-> <<>>, current_step |-> 0, current |-> Zero,
     velocity |-> Zero, is_active |-> FALSE, on_complete |-> NoCallback]

\* AnimationSequence::then
Then(s, a) ==
    [s EXCEPT !.steps = Append(s.steps, [animation |-> a, started |-> FALSE,
                                         completed |-> FALSE])]

\* sequence().then(a1).then(a2)... for the list l of animations
RECURSIVE BuildSequence(_, _)
BuildSequence(s, l) ==
    IF l = <<>> THEN s ELSE BuildSequence(Then(s, Head(l)), Tail(l))

\* AnimationSequence::on_complete
SeqOnComplete(s, cb) == [s EXCEPT !.on_complete = cb]

\* AnimationSequence::start
SeqStart(s) ==
    IF s.steps # <<>>
    THEN [s EXCEPT !.is_active = TRUE, !.current_step = 0,
                   !.steps = [i \in DOMAIN s.steps |-> [s.steps[i] EXCEPT !.completed = FALSE]]]
    ELSE s

\* The callbacks invoked when a combinator completes.
DropCallback(cb) == <<>>

FireCallback(cb) == IF cb # NoCallback THEN <<cb>> ELSE <<>>

\* The step a sequence moves to when step i (0-based) completes.
SameStep(i) == i

NextStep(i) == i + 1

\* What the sequence reports on the tick a non-final step completes.
SeqTransitionCompleted == "Completed"

SeqTransitionState == "Active"

\* AnimationSequence::update after the current step returned r: lines 123-158
SeqAfterStep(s, dt, i, r) ==
    LET tr == <<MemberCall(i, dt, r)>>
        s1 == [s EXCEPT !.steps[i].started = TRUE, !.steps[i].animation = r.anim,
                        !.current = r.value, !.velocity = r.velocity]
    IN
    IF r.state = "Completed"
    THEN IF s.current_step < Len(s.steps) - 1
         THEN LET n == NextStep(s.current_step) IN
              Result([s1 EXCEPT !.steps[i].completed = TRUE, !.current_step = n,
                                !.steps[n + 1].started = TRUE],
                     SeqTransitionState, r.value, r.velocity, r.fired, "none", tr)
         ELSE Result([s1 EXCEPT !.steps[i].completed = TRUE, !.is_active = FALSE],
                     "Completed", r.value, Zero,
                     r.fired \o FireCallback(s.on_complete), "none", tr)
    ELSE Result(s1, "Active", r.value, r.velocity, r.fired, "none", tr)

\* AnimationSequence::update
\* AnimationSequence::update on a sequence that is not active, with its variant that
\* reports the sequence as still running
SeqInactiveStillActive(s) == Result(s, "Active", s.current, s.velocity, <<>>, "none", <<>>)

SeqInactive(s) == Result(s, "Completed", s.current, Zero, <<>>, "none", <<>>)

SeqUpdate(s, dt) ==
    IF ~s.is_active THEN SeqInactive(s)
    ELSE IF s.steps = <<>>
    THEN Result([s EXCEPT !.is_active = FALSE], "Completed", s.current, Zero,
                <<>>, "none", <<>>)
    ELSE SeqAfterStep(s, dt, s.current_step + 1,
                      LeafUpdate(s.steps[s.current_step + 1].animation, dt))

\* AnimationSequence::value
SeqValue(s) == s.current

\* Whether step i (1-based) is marked started by reset: only the first is.
FirstStepStarted(i) == i = 1

\* AnimationSequence::reset
SeqReset(s) ==
    [s EXCEPT !.steps = [i \in DOMAIN s.steps |->
                            [animation |-> LeafReset(s.steps[i].animation),
                             started |-> FirstStepStarted(i), completed |-> FALSE]],
              !.current_step = 0,
              !.is_active = (s.steps # <<>>)]

----------------------------------------------------------------------------
(* Group engine: group.rs *)

\* AnimationGroup::default
NewGroup ==
    [kind |-> "group", animations |-> <<>>, is_active |-> FALSE, on_complete |-> NoCallback]

\* AnimationGroup::add_animation
AddAnimation(g, a) ==
    [g EXCEPT !.animations = Append(g.animations, [animation |-> a, completed |-> FALSE])]

\* group().add_animation(a1).add_animation(a2)... for the list l of animations
RECURSIVE BuildGroup(_, _)
BuildGroup(g, l) ==
    IF l = <<>> THEN g ELSE BuildGroup(AddAnimation(g, Head(l)), Tail(l))

\* AnimationGroup::on_complete
GroupOnComplete(g, cb) == [g EXCEPT !.on_complete = cb]

\* AnimationGroup::start
GroupStart(g) ==
    IF g.animations # <<>>
    THEN [g EXCEPT !.is_active = TRUE,
                   !.animations = [i \in DOMAIN g.animations |->
                                     [g.animations[i] EXCEPT !.completed = FALSE]]]
    ELSE g

\* Whether the loop of AnimationGroup::update updates a member.
MemberAlwaysUpdated(item) == TRUE

MemberIsUpdated(item) == ~item.completed

\* The body of the loop of AnimationGroup::update for member i, whose update returned r.
Accumulate(acc, i, dt, r) ==
    [animations |-> [acc.animations EXCEPT ![i].animation = r.anim,
                                           ![i].completed = (r.state = "Completed")],
     all_completed |-> acc.all_completed /\ r.state = "Completed",
     combined_value |-> Add(acc.combined_value, r.value),
     combined_velocity |-> Add(acc.combined_velocity, r.velocity),
     fired |-> acc.fired \o r.fired,
     trace |-> Append(acc.trace, MemberCall(i, dt, r))]

\* The loop "for anim in &mut self.animations" of AnimationGroup::update, from member i on.
\* acc: the members so far, all_completed, the combined value and velocity, the callbacks
\* fired by members and the members updated.
RECURSIVE GroupLoop(_, _, _)
GroupLoop(acc, i, dt) ==
    IF i > Len(acc.animations) THEN acc
    ELSE IF MemberIsUpdated(acc.animations[i])
    THEN GroupLoop(Accumulate(acc, i, dt, LeafUpdate(acc.animations[i].animation, dt)),
                   i + 1, dt)
    ELSE GroupLoop(acc, i + 1, dt)

\* AnimationGroup::update after the loop: lines 138-152
GroupAfterLoop(g, l) ==
    IF l.all_completed
    THEN Result([g EXCEPT !.animations = l.animations, !.is_active = FALSE], "Completed",
                l.combined_value, l.combined_velocity,
                l.fired \o FireCallback(g.on_complete), "none", l.trace)
    ELSE Result([g EXCEPT !.animations = l.animations], "Active",
                l.combined_value, l.combined_velocity, l.fired, "none", l.trace)

\* AnimationGroup::update
\* The guard of AnimationGroup::update: nothing is updated when the group is not active
\* or has no member.  The variant tests the members only.
GroupIdleIfEmpty(g) == g.animations = <<>>

GroupIdle(g) == ~g.is_active \/ g.animations = <<>>

GroupUpdate(g, dt) ==
    IF GroupIdle(g)
    THEN Result(g, "Completed", Zero, Zero, <<>>, "none", <<>>)
    ELSE GroupAfterLoop(g, GroupLoop([animations |-> g.animations, all_completed |-> TRUE,
                                      combined_value |-> Zero, combined_velocity |-> Zero,
                                      fired |-> <<>>, trace |-> <<>>], 1, dt))

\* The loop of AnimationGroup::value from member i on:
\* combined_value = combined_value.add(&anim.animation.value())
RECURSIVE SumValues(_, _, _)
SumValues(items, i, combined_value) ==
    IF i > Len(items) THEN combined_value
    ELSE SumValues(items, i + 1, Add(combined_value, LeafValue(items[i].animation)))

\* AnimationGroup::value
GroupValue(g) == SumValues(g.animations, 1, Zero)

\* AnimationGroup::reset
GroupReset(g) ==
    [g EXCEPT !.animations = [i \in DOMAIN g.animations |->
                                [animation |-> LeafReset(g.animations[i].animation),
                                 completed |-> FALSE]],
              !.is_active = (g.animations # <<>>)]

----------------------------------------------------------------------------
(* Stagger engine: stagger.rs *)

\* StaggeredAnimation::default
NewStagger ==
    [kind |-> "stagger", items |-> <<>>, base_delay |-> DurationFromMillis(50),
     all_completed |-> FALSE,
     current |-> Zero, on_complete |-> NoCallback, is_active |-> FALSE]

\* StaggeredAnimation::add_with_delay: delay is held, like elapsed_delay, as a
\* Duration in nanoseconds
AddWithDelay(s, a, delay, key) ==
    [s EXCEPT !.items = Append(s.items, [animation |-> a, delay |-> delay,
                                         elapsed_delay |-> 0, started |-> FALSE,
                                         key |-> key]),
              !.is_active = TRUE]

\* Duration::mul_f32: Duration::from_secs_f32(rhs * self.as_secs_f32())
MulF32(duration, rhs) == DurationOfF32(F32Mul(rhs, AsSecsF32(duration)))

\* StaggeredAnimation::add: the delay is base_delay.mul_f32(key as f32)
StaggerAdd(s, a, key) ==
    AddWithDelay(s, a, MulF32(s.base_delay, F32FromInt(key)), key)

\* StaggeredAnimation::delay_between
DelayBetween(s, delay) == [s EXCEPT !.base_delay = delay]

\* StaggeredAnimation::on_complete
StaggerOnComplete(s, cb) == [s EXCEPT !.on_complete = cb]

\* StaggeredAnimation::start
StaggerStart(s) == [s EXCEPT !.is_active = (s.items # <<>>)]

\* stagger().add_with_delay(a1, d1, 0).add_with_delay(a2, d2, 1)... for the list l of
\* [animation, delay] pairs
RECURSIVE BuildStagger(_, _)
BuildStagger(s, l) ==
    IF l = <<>> THEN s
    ELSE BuildStagger(AddWithDelay(s, Head(l).animation,
                                   DurationFromMillis(Head(l).delay), Len(s.items)),
                      Tail(l))

\* stagger().add(a1, k1).add(a2, k2)... for the list l of [animation, key] pairs
RECURSIVE BuildCascade(_, _)
BuildCascade(s, l) ==
    IF l = <<>> THEN s
    ELSE BuildCascade(StaggerAdd(s, Head(l).animation, Head(l).key), Tail(l))

\* Whether a waiting item's delay has elapsed: item.elapsed_delay >= item.delay
DelayElapsedLate(elapsed, delay) == elapsed > delay

DelayElapsed(elapsed, delay) == elapsed >= delay

\* all_completed after an item's update returned state
IgnoreMemberState(all, state) == all

StillAllCompleted(all, state) == all /\ state # "Active"

\* The loop body of StaggeredAnimation::update for a started item i whose update
\* returned r.
StaggerItemStep(acc, i, dt, r) ==
    [items |-> [acc.items EXCEPT ![i].animation = r.anim],
     all_completed |-> StillAllCompleted(acc.all_completed, r.state),
     fired |-> acc.fired \o r.fired,
     trace |-> Append(acc.trace, MemberCall(i, dt, r))]

\* The loop "for item in &mut self.items" of StaggeredAnimation::update, from item i on.
RECURSIVE StaggerLoop(_, _, _)
StaggerLoop(acc, i, dt) ==
    IF i > Len(acc.items) THEN acc
    ELSE IF acc.items[i].started
    THEN StaggerLoop(StaggerItemStep(acc, i, dt, LeafUpdate(acc.items[i].animation, dt)),
                     i + 1, dt)
    ELSE IF DelayElapsed(acc.items[i].elapsed_delay + DurationFromSecsF32(dt),
                         acc.items[i].delay)
    THEN StaggerLoop(
            StaggerItemStep(
                [acc EXCEPT !.items[i].elapsed_delay =
                                acc.items[i].elapsed_delay + DurationFromSecsF32(dt),
                            !.items[i].started = TRUE],
                i, dt, LeafUpdate(acc.items[i].animation, dt)),
            i + 1, dt)
    ELSE StaggerLoop(
            [acc EXCEPT !.items[i].elapsed_delay =
                            acc.items[i].elapsed_delay + DurationFromSecsF32(dt),
                        !.all_completed = FALSE],
            i + 1, dt)

\* The started items.
Started(items) == {i \in DOMAIN items : items[i].started}

\* "for item in self.items.iter().rev()": the value of the last started item, or the
\* stored value when none has started.
Aggregate(items, current) ==
    IF Started(items) = {} THEN current
    ELSE LeafValue(items[CHOOSE i \in Started(items) :
                            \A j \in Started(items) : j <= i].animation)

\* The value returned on the tick that finds every item completed: self.current as the
\* previous update stored it.  The variant computes the aggregate of this tick.
CompletedValueRecomputed(s, items) == Aggregate(items, s.current)

CompletedValue(s, items) == s.current

\* StaggeredAnimation::update after the loop: lines 153-183
StaggerAfterLoop(s, l) ==
    IF l.all_completed /\ ~s.all_completed
    THEN Result([s EXCEPT !.items = l.items, !.all_completed = TRUE,
                          !.current = CompletedValue(s, l.items)], "Completed",
                CompletedValue(s, l.items), Zero,
                l.fired \o FireCallback(s.on_complete), "none", l.trace)
    ELSE Result([s EXCEPT !.items = l.items, !.current = Aggregate(l.items, s.current)],
                IF l.all_completed THEN "Completed" ELSE "Active",
                Aggregate(l.items, s.current), Zero, l.fired, "none", l.trace)

\* StaggeredAnimation::update
StaggerUpdate(s, dt) ==
    IF ~s.is_active THEN Result(s, "Completed", s.current, Zero, <<>>, "none", <<>>)
    ELSE IF s.all_completed
    THEN Result(s, "Completed", s.current, Zero, <<>>, "none", <<>>)
    ELSE StaggerAfterLoop(s, StaggerLoop([items |-> s.items, all_completed |-> TRUE,
                                          fired |-> <<>>, trace |-> <<>>], 1, dt))

\* StaggeredAnimation::value
StaggerValue(s) == s.current

\* StaggeredAnimation::reset
StaggerReset(s) ==
    [s EXCEPT !.items = [i \in DOMAIN s.items |->
                            [s.items[i] EXCEPT !.animation = LeafReset(s.items[i].animation),
                                               !.elapsed_delay = 0, !.started = FALSE]],
              !.all_completed = FALSE,
              !.is_active = (s.items # <<>>)]

----------------------------------------------------------------------------
(* Box<dyn Animation>: the call goes to the implementation of the          *)
(* animation held.                                                         *)

\* Animation::update
LeafUpdate(a, dt) ==
    CASE a.kind = "tween" -> TweenUpdate(a, dt)
      [] a.kind = "spring" -> SpringUpdate(a, dt)
      [] a.kind = "keyframe" -> KeyframeUpdate(a, dt)
      [] a.kind = "sequence" -> SeqUpdate(a, dt)
      [] a.kind = "group" -> GroupUpdate(a, dt)
      [] a.kind = "stagger" -> StaggerUpdate(a, dt)

\* Animation::value
LeafValue(a) ==
    CASE a.kind = "tween" -> TweenValue(a)
      [] a.kind = "spring" -> SpringValue(a)
      [] a.kind = "keyframe" -> KeyframeValue(a)
      [] a.kind = "sequence" -> SeqValue(a)
      [] a.kind = "group" -> GroupValue(a)
      [] a.kind = "stagger" -> StaggerValue(a)

\* Animation::reset
LeafReset(a) ==
    CASE a.kind = "tween" -> TweenReset(a)
      [] a.kind = "spring" -> SpringReset(a)
      [] a.kind = "keyframe" -> KeyframeReset(a)
      [] a.kind = "sequence" -> SeqReset(a)
      [] a.kind = "group" -> GroupReset(a)
      [] a.kind = "stagger" -> StaggerReset(a)

----------------------------------------------------------------------------
(* AnimationEngine (the Value Cell) and the MotionValue builders: core.rs *)

\* animation: None
NoAnimation == [kind |-> "none"]

CallbackIds == 1..MaxCallbacks

\* AnimationEngine::new
NewEngine(initial) ==
    [current |-> initial, velocity |-> Zero, animation |-> NoAnimation,
     is_active |-> FALSE, callbacks |-> <<>>]

\* animation.update(dt) on the engine's Box<dyn Animation>
AnimUpdate(a, dt) == LeafUpdate(a, dt)

\* animation.value() on the engine's Box<dyn Animation>
AnimValue(a) == LeafValue(a)

\* Box<dyn Animation>::is_active
AnimIsActive(a) ==
    CASE a.kind = "stagger" -> a.is_active /\ ~a.all_completed
      [] OTHER -> a.is_active

\* AnimationEngine::update after the animation returned r: lines 54-67
EngineAfterUpdate(e, r) ==
    IF r.state = "Active"
    THEN [engine |-> [e EXCEPT !.current = r.value, !.velocity = r.velocity,
                               !.animation = r.anim],
          ret |-> TRUE, state |-> "Active", fired |-> r.fired, drained |-> <<>>]
    ELSE [engine |-> [e EXCEPT !.current = r.value, !.is_active = FALSE,
                               !.animation = NoAnimation, !.velocity = Zero],
          ret |-> FALSE, state |-> "Completed", fired |-> r.fired, drained |-> <<>>]

\* AnimationEngine::update.  ret is the returned bool, state what the animation returned
\* ("none" when no animation was updated), fired the callbacks invoked by the animation
\* and drained those taken from the engine's callback queue and invoked.
EngineUpdate(e, dt) ==
    IF ~e.is_active
    THEN [engine |-> e, ret |-> FALSE, state |-> "none", fired |-> <<>>, drained |-> <<>>]
    ELSE IF e.animation.kind # "none"
    THEN EngineAfterUpdate(e, AnimUpdate(e.animation, dt))
    ELSE [engine |-> e, ret |-> FALSE, state |-> "none", fired |-> <<>>, drained |-> <<>>]

\* AnimationEngine::set
EngineSet(e, value) ==
    [e EXCEPT !.current = value, !.velocity = Zero, !.animation = NoAnimation,
              !.is_active = FALSE]

\* AnimationEngine::get
EngineGet(e) == e.current

\* AnimationEngine::is_active
EngineIsActive(e) == e.is_active

\* AnimationEngine::spring_to, with its variant that restarts from rest
EngineSpringToFromRest(e, target, spring) ==
    [e EXCEPT !.animation = SpringCreateAnimation(spring, e.current, target, Zero),
              !.is_active = TRUE]

EngineSpringTo(e, target, spring) ==
    [e EXCEPT !.animation = SpringCreateAnimation(spring, e.current, target, e.velocity),
              !.is_active = TRUE]

\* AnimationEngine::tween_to, with its variant that stops the running animation first
\* and does not mark the cell active again
EngineTweenToAfterStop(e, target, duration) ==
    [e EXCEPT !.animation = TweenCreateAnimation(duration, e.current, target),
              !.is_active = FALSE]

EngineTweenTo(e, target, duration) ==
    [e EXCEPT !.animation = TweenCreateAnimation(duration, e.current, target),
              !.is_active = TRUE]

\* AnimationEngine::stop, with its variant that leaves the animation installed
EngineStopKeeping(e) == e

\* a stop that also puts the value back to zero
EngineStopResetting(e) ==
    [e EXCEPT !.animation = NoAnimation, !.is_active = FALSE, !.current = Zero]

EngineStop(e) == [e EXCEPT !.animation = NoAnimation, !.is_active = FALSE]

\* AnimationEngine::add_completion_callback
AddCompletionCallback(e, cb) == [e EXCEPT !.callbacks = Append(e.callbacks, cb)]

\* AnimationEngine::apply_sequence
ApplySequence(e, sequence) == [e EXCEPT !.animation = sequence, !.is_active = TRUE]

\* AnimationEngine::apply_staggered
ApplyStaggered(e, staggered) == [e EXCEPT !.animation = staggered, !.is_active = TRUE]

\* AnimationEngine::apply_group
ApplyGroup(e, group) == [e EXCEPT !.animation = group, !.is_active = TRUE]

\* AnimationEngine::apply_keyframes, with its variant that installs the animation and
\* forgets the flag
ApplyKeyframesUnflagged(e, keyframes) == [e EXCEPT !.animation = keyframes]

ApplyKeyframes(e, keyframes) == [e EXCEPT !.animation = keyframes, !.is_active = TRUE]

\* SpringBuilder::animate_to / TweenBuilder::animate_to: queue the callback, if any
QueueCallback(e, cb) == IF cb # NoCallback THEN AddCompletionCallback(e, cb) ELSE e

\* SequenceBuilder::start: the callback, if any, becomes the sequence's on_complete
SequenceBuilderStart(e, steps, cb) ==
    LET sequence == BuildSequence(NewSequence, steps)
        withCb == IF cb # NoCallback THEN SeqOnComplete(sequence, cb) ELSE sequence
    IN ApplySequence(e, SeqStart(withCb))

\* GroupBuilder::start: the callback, if any, becomes the group's on_complete
GroupBuilderStart(e, members, cb) ==
    LET group == BuildGroup(NewGroup, members)
        withCb == IF cb # NoCallback THEN GroupOnComplete(group, cb) ELSE group
    IN ApplyGroup(e, GroupStart(withCb))

\* KeyframeBuilder::start, the for loop over the pushed keyframes
RECURSIVE AddKeyframes(_, _)
AddKeyframes(a, keys) ==
    IF keys = <<>> THEN a
    ELSE AddKeyframes(AddKeyframeWithEasing(a, keys[1].position, keys[1].value,
                                            keys[1].easing),
                      Tail(keys))

\* KeyframeBuilder::start
KeyframeBuilderStart(e, keys, duration, cb) ==
    ApplyKeyframes(QueueCallback(e, cb), AddKeyframes(NewKeyframes(duration), keys))

\* The callbacks the cell holds that have not been invoked: those in the engine's queue
\* and the on_complete of an installed sequence, group or stagger.
Pending(e) ==
    {c \in CallbackIds :
        /\ invoked[c] = 0
        /\ \/ \E i \in DOMAIN e.callbacks : e.callbacks[i] = c
           \/ /\ e.animation.kind \in {"sequence", "group", "stagger"}
              /\ e.animation.on_complete = c}

\* What the ghost lastOp records about an engine operation: the operation, the kind and
\* target of the animation it acted on and, for update, what the animation returned.
Op(op, kind, target, state) == [op |-> op, kind |-> kind, target |-> target, state |-> state]

IdleEngine ==
    /\ engine = NewEngine(Zero)
    /\ invoked = [c \in CallbackIds |-> 0]
    /\ cancelled = {}
    /\ lastOp = Op("new", "none", Zero, "none")
    /\ registered = 0
    /\ starts = 0

----------------------------------------------------------------------------
(* Stand-alone drivers: an animation built by the caller and ticked with    *)
(* update(dt), as the unit tests of the crate do.                           *)

OwnCb == 1        \* the callback given to the animation under test
MemberCb == 2     \* the callback given to a member's timing

\* Spring::stiff()
StiffSpring ==
    [stiffness |-> 2100, damping |-> 200, mass |-> 10, initial_velocity |-> None]

CadenceSet == {50, 100}

\* AnimationTiming::new().with_loop_mode(..).with_direction(..).with_delay(..).with_on_complete(..)
Timing(mode, n, dir, delay, cb) ==
    [loop_mode |-> mode, count |-> n, direction |-> dir,
     delay |-> DurationFromMillis(delay),
     current_loop |-> 0, delay_elapsed |-> FALSE, on_complete |-> cb]

LoopModes ==
    {<<"None", 0>>, <<"Infinite", 0>>} \cup {<<"Count", n>> : n \in 0..MaxCount}

Directions == {"Forward", "Reverse", "Alternate", "AlternateReverse"}

TimingConfigs ==
    {Timing(m[1], m[2], d, dl, cb) :
        m \in LoopModes, d \in Directions, dl \in DelaySet, cb \in {NoCallback, OwnCb}}

\* The velocity of speed v in the direction of the target: direction.scale(v /
\* magnitude) when the magnitude of direction = target - initial is above epsilon(),
\* zero otherwise
Toward(direction, v) ==
    IF F32Lt(Epsilon, Magnitude(direction))
    THEN Scale(direction, F32Div(v, Magnitude(direction)))
    ELSE Zero

\* SpringAnimation::new: the velocity is zero without spring.initial_velocity, and
\* points to the target with it
StartVelocity(initial, target, spring) ==
    IF spring.initial_velocity = None THEN Zero
    ELSE Toward(Sub(target, initial), spring.initial_velocity[1])

\* SpringAnimation::new
NewSpring(initial, target, spring, timing) ==
    [kind |-> "spring", initial |-> initial, current |-> initial,
     target |-> target, velocity |-> StartVelocity(initial, target, spring),
     spring |-> spring, timing |-> timing, is_active |-> TRUE, completion_scale |-> 1]

\* SpringAnimation::new of animations/spring.rs
LenientNewSpring(initial, target, spring, timing) ==
    [NewSpring(initial, target, spring, timing) EXCEPT !.completion_scale = LenientScale]

\* The initial and target values of the springs given an initial velocity: toward a
\* target above, toward a target below, and already at the target
PushedSprings == {<<V(0), V(10)>>, <<V(10), V(0)>>, <<V(10), V(10)>>}

LeafConfigs ==
    {NewTween(V(0), V(10), DurationFromMillis(d), tm) :
        d \in DurationSet \cup FineDurationSet, tm \in TimingConfigs}
    \cup {NewSpring(V(0), V(10), StiffSpring, tm) :
            tm \in {t \in TimingConfigs : t.direction = "Forward" /\ t.delay = 0}}
    \cup {SpringCreateAnimation(StiffSpring, V(10), V(10), V(1))}
    \cup {NewSpring(b[1], b[2], SpringInitialVelocity(StiffSpring, V(5)), DefaultTiming) :
            b \in PushedSprings}
    \cup {LenientNewSpring(V(0), V(10), StiffSpring, Timing(m[1], m[2], "Forward", 0, OwnCb)) :
            m \in {<<"None", 0>>, <<"Count", 2>>}}
    \cup {LenientNewSpring(V(10), V(0), SpringInitialVelocity(StiffSpring, V(5)),
                            DefaultTiming)}

\* The table with keyframes 0.0 at position 0.0 and 10.0 at position 1.0 only.
PlainTable(duration) ==
    AddKeyframe(AddKeyframe(NewKeyframes(duration), 0, V(0)), PositionScale, V(10))

\* keyframes 0.0 -> 10.0 over 100 ms
MemberKeyframes == PlainTable(DurationFromMillis(100))

\* The members offered to sequences and groups.
MemberConfigs ==
    { NewTween(V(0), V(10), DurationFromMillis(100), DefaultTiming),
      NewTween(V(0), V(10), DurationFromMillis(0), DefaultTiming),
      NewTween(V(0), V(10), DurationFromMillis(100), Timing("Count", 2, "Alternate", 0, MemberCb)),
      NewTween(V(10), V(20), DurationFromMillis(100), Timing("None", 0, "Forward", 100, NoCallback)),
      NewSpring(V(0), V(10), StiffSpring, DefaultTiming) }

\* Members offered alone or next to a tween 0.0 -> 10.0 of 100 ms: a keyframe
\* animation and the tweens of FineDurationSet.
FineMembers ==
    {MemberKeyframes}
    \cup {NewTween(V(0), V(10), DurationFromMillis(d), DefaultTiming) : d \in FineDurationSet}

FineLists ==
    {<<a>> : a \in FineMembers}
    \cup {<<a, NewTween(V(0), V(10), DurationFromMillis(100), DefaultTiming)>> :
            a \in FineMembers}
    \cup {<<NewTween(V(0), V(10), DurationFromMillis(100), DefaultTiming), a>> :
            a \in FineMembers}

RECURSIVE MemberLists(_)
MemberLists(n) ==
    IF n = 0 THEN {<<>>}
    ELSE LET shorter == MemberLists(n - 1) IN
         shorter \cup {Append(l, a) : l \in {x \in shorter : Len(x) = n - 1},
                                      a \in MemberConfigs}

Members(a) ==
    CASE a.kind = "sequence" -> [i \in DOMAIN a.steps |-> a.steps[i].animation]
      [] a.kind = "group" -> [i \in DOMAIN a.animations |-> a.animations[i].animation]
      [] a.kind = "stagger" -> [i \in DOMAIN a.items |-> a.items[i].animation]
      [] OTHER -> <<>>

RECURSIVE HasSpring(_)
HasSpring(a) ==
    a.kind = "spring" \/ \E i \in DOMAIN Members(a) : HasSpring(Members(a)[i])

IsFine(a) ==
    a.kind = "tween" /\ a.duration \in {DurationFromMillis(d) : d \in FineDurationSet}

RECURSIVE HasFine(_)
HasFine(a) == IsFine(a) \/ \E i \in DOMAIN Members(a) : HasFine(Members(a)[i])

\* The frame times of the tick source that matter to a: each of CadenceSet for an
\* animation that holds a spring, which is stepped at the cadence, and the least for
\* any other.
CadenceFor(a) ==
    IF HasSpring(a) THEN CadenceSet
    ELSE {c \in CadenceSet : \A d \in CadenceSet : c <= d}

\* The dt values the tick source may supply to a.
TickDts(a) ==
    IF HasSpring(a) THEN {0, cadence} ELSE IF HasFine(a) THEN FineDts ELSE DtSet

RECURSIVE Timings(_)
Timings(a) ==
    IF a.kind \in {"tween", "spring", "keyframe"} THEN {a.timing}
    ELSE UNION {Timings(Members(a)[i]) : i \in DOMAIN Members(a)}

\* Infinite loops are explored up to MaxLoops cycles.
WithinLoopBound(a) ==
    \A tm \in Timings(a) : tm.loop_mode = "Infinite" => tm.current_loop < MaxLoops

CountIn(seq, c) == Cardinality({i \in DOMAIN seq : seq[i] = c})

InitRes ==
    [op |-> "new", dt |-> 0, state |-> "Active", value |-> Zero, velocity |-> Zero,
     fired |-> <<>>, loopRet |-> "none", trace |-> <<>>]

InitGhosts(a) ==
    /\ res = InitRes
    /\ cbCount = [c \in {OwnCb, MemberCb} |-> 0]
    /\ cycles = 0
    /\ calls = [i \in DOMAIN Members(a) |-> 0]
    /\ retDone = [i \in DOMAIN Members(a) |-> FALSE]
    /\ clock = 0

\* What one update(dt) of the animation under test, which returned r, leaves behind.
Recorded(r, dt) ==
    /\ anim' = r.anim
    /\ res' = [op |-> "update", dt |-> dt, state |-> r.state, value |-> r.value,
               velocity |-> r.velocity, fired |-> r.fired, loopRet |-> r.loopRet,
               trace |-> r.trace]
    /\ cbCount' = [c \in DOMAIN cbCount |-> cbCount[c] + CountIn(r.fired, c)]
    /\ cycles' = cycles + (IF r.loopRet # "none" THEN 1 ELSE 0)
    /\ calls' = [i \in DOMAIN calls |->
                    Min(CallCap, calls[i] + Cardinality({k \in DOMAIN r.trace :
                                                            r.trace[k].member = i}))]
    /\ retDone' = [i \in DOMAIN retDone |->
                    retDone[i] \/ \E k \in DOMAIN r.trace :
                                     r.trace[k].member = i /\ r.trace[k].state = "Completed"]

\* Record one update(dt) of the animation under test.
Observe(r, dt) ==
    /\ Recorded(r, dt)
    /\ clock' = IF r.anim.kind = "stagger"
                THEN Min(DurationFromMillis(ClockCap), clock + DurationFromSecsF32(dt))
                ELSE clock
    /\ UNCHANGED <<engineVars, cadence>>

TweenTick(dt) ==
    /\ anim.kind = "tween"
    /\ dt \in TickDts(anim)
    /\ WithinLoopBound(anim)
    /\ Observe(TweenUpdate(anim, dt), dt)

SpringTick(dt) ==
    /\ anim.kind = "spring"
    /\ dt \in TickDts(anim)
    /\ WithinLoopBound(anim)
    /\ Observe(SpringUpdate(anim, dt), dt)

SeqTick(dt) ==
    /\ anim.kind = "sequence"
    /\ dt \in TickDts(anim)
    /\ WithinLoopBound(anim)
    /\ Observe(SeqUpdate(anim, dt), dt)

GroupTick(dt) ==
    /\ anim.kind = "group"
    /\ dt \in TickDts(anim)
    /\ WithinLoopBound(anim)
    /\ Observe(GroupUpdate(anim, dt), dt)

AllDts == DtSet \cup CadenceSet \cup FineDts

\* A tween or spring with any timing configuration, ticked to the end.
InitLeaf ==
    /\ anim \in LeafConfigs
    /\ cadence \in CadenceFor(anim)
    /\ InitGhosts(anim)
    /\ IdleEngine

NextLeaf == \E dt \in AllDts : TweenTick(dt) \/ SpringTick(dt)

SpecLeaf == InitLeaf /\ [][NextLeaf]_vars

\* A started sequence of up to MaxMembers steps.
InitSeq ==
    /\ anim \in {SeqStart(SeqOnComplete(BuildSequence(NewSequence, l), cb)) :
                    l \in MemberLists(MaxMembers) \cup FineLists,
                    cb \in {NoCallback, OwnCb}}
    /\ cadence \in CadenceFor(anim)
    /\ InitGhosts(anim)
    /\ IdleEngine

NextSeq == \E dt \in AllDts : SeqTick(dt)

SpecSeq == InitSeq /\ [][NextSeq]_vars

\* A started group of up to MaxMembers members.
InitGroup ==
    /\ anim \in {GroupStart(GroupOnComplete(BuildGroup(NewGroup, l), cb)) :
                    l \in MemberLists(MaxMembers) \cup FineLists,
                    cb \in {NoCallback, OwnCb}}
    /\ cadence \in CadenceFor(anim)
    /\ InitGhosts(anim)
    /\ IdleEngine

NextGroup == \E dt \in AllDts : GroupTick(dt)

SpecGroup == InitGroup /\ [][NextGroup]_vars

\* The animations and start delays offered to a stagger.
StaggerAnims ==
    { NewTween(V(0), V(10), DurationFromMillis(100), DefaultTiming),
      NewTween(V(0), V(20), DurationFromMillis(200), DefaultTiming),
      NewTween(V(0), V(30), DurationFromMillis(0), DefaultTiming) }

StaggerItems == {[animation |-> a, delay |-> d] : a \in StaggerAnims, d \in {0, 50, 100}}

RECURSIVE StaggerLists(_)
StaggerLists(n) ==
    IF n = 0 THEN {<<>>}
    ELSE LET shorter == StaggerLists(n - 1) IN
         shorter \cup {Append(l, a) : l \in {x \in shorter : Len(x) = n - 1},
                                      a \in StaggerItems}

StaggerTick(dt) ==
    /\ anim.kind = "stagger"
    /\ dt \in DtSet
    /\ Observe(StaggerUpdate(anim, dt), dt)

\* A started stagger of up to MaxMembers items.
InitStagger ==
    /\ anim \in {StaggerStart(StaggerOnComplete(BuildStagger(NewStagger, l), cb)) :
                    l \in StaggerLists(MaxMembers), cb \in {NoCallback, OwnCb}}
    /\ cadence \in CadenceFor(anim)
    /\ InitGhosts(anim)
    /\ IdleEngine

NextStagger == \E dt \in DtSet : StaggerTick(dt)

SpecStagger == InitStagger /\ [][NextStagger]_vars

\* A forward, linear tween without delay, stand-alone and installed in a Value Cell by
\* tween_to, both ticked with the same dt; clock is the total dt supplied.
TweenCases ==
    { [initial |-> V(0), target |-> V(100), duration |-> 1000],
      [initial |-> V(0), target |-> V(1), duration |-> 500],
      [initial |-> V(20), target |-> V(10), duration |-> 300],
      [initial |-> V(-5), target |-> V(5), duration |-> 700] }
    \cup {[initial |-> V(0), target |-> V(10), duration |-> d] : d \in FineDurationSet}

TweenDts == {0, 50, 100, 250, 500}

\* The dt values the tick source may supply to the tween a.
TweenCellDts(a) == IF IsFine(a) THEN FineDts ELSE TweenDts

TweenCellTick(dt) ==
    /\ anim.kind = "tween" /\ anim.is_active
    /\ dt \in TweenCellDts(anim)
    /\ Recorded(TweenUpdate(anim, dt), dt)
    /\ clock' = clock + dt
    /\ engine' = EngineUpdate(engine, dt).engine
    /\ UNCHANGED <<invoked, cancelled, lastOp, registered, starts, cadence>>

InitTweenCell ==
    /\ \E c \in TweenCases :
          /\ anim = TweenCreateAnimation(DurationFromMillis(c.duration), c.initial, c.target)
          /\ engine = EngineTweenTo(NewEngine(c.initial), c.target,
                                    DurationFromMillis(c.duration))
    /\ invoked = [c \in CallbackIds |-> 0]
    /\ cancelled = {}
    /\ lastOp = Op("tween_to", "tween", anim.target, "none")
    /\ registered = 0
    /\ starts = 1
    /\ InitGhosts(anim)
    /\ cadence \in CadenceFor(anim)

NextTweenCell == \E dt \in TweenDts \cup FineDts : TweenCellTick(dt)

SpecTweenCell == InitTweenCell /\ [][NextTweenCell]_vars

----------------------------------------------------------------------------
(* The timing state machine on its own: an AnimationTiming built by the      *)
(* caller, on which handle_delay(dt) and handle_loop_completion() are called *)
(* as the engines call them.  config keeps the timing as it was built.       *)

TimingCell(tm) == [kind |-> "timing", timing |-> tm, config |-> tm]

HandleDelayCall(dt) ==
    /\ anim.kind = "timing"
    /\ anim' = [anim EXCEPT !.timing = HandleDelay(anim.timing, dt).timing]
    /\ res' = [op |-> "handle_delay", dt |-> dt,
               ret |-> HandleDelay(anim.timing, dt).ret, fired |-> <<>>]
    /\ clock' = Min(DurationFromMillis(ClockCap), clock + DurationFromSecsF32(dt))
    /\ UNCHANGED <<engineVars, cbCount, cycles, calls, retDone, cadence>>

HandleLoopCompletionCall ==
    /\ anim.kind = "timing"
    /\ anim.timing.current_loop < MaxLoops
    /\ anim' = [anim EXCEPT !.timing = HandleLoopCompletion(anim.timing).timing]
    /\ res' = [op |-> "handle_loop_completion", dt |-> 0,
               ret |-> HandleLoopCompletion(anim.timing).ret,
               fired |-> HandleLoopCompletion(anim.timing).fired]
    /\ cbCount' = [c \in DOMAIN cbCount |->
                     Min(CallCap, cbCount[c]
                                    + CountIn(HandleLoopCompletion(anim.timing).fired, c))]
    /\ cycles' = cycles + (IF HandleLoopCompletion(anim.timing).ret THEN 1 ELSE 0)
    /\ UNCHANGED <<engineVars, calls, retDone, clock, cadence>>

\* A delay of 30 ms next to those of TimingConfigs, and, for the timings that play
\* once and forward, frame times of 10 and 30 ms next to those of DtSet: 0.03 s
\* converts to a nanosecond less than 30 ms, 0.01 s to 10 ms exactly.
TimingDelays == {Timing("None", 0, "Forward", 30, cb) : cb \in {NoCallback, OwnCb}}

TimingDts(config) ==
    IF config.loop_mode = "None" /\ config.direction = "Forward"
    THEN DtSet \cup {10, 30}
    ELSE DtSet

InitTiming ==
    /\ anim \in {TimingCell(tm) : tm \in TimingConfigs \cup TimingDelays}
    /\ cadence \in CadenceFor(anim)
    /\ InitGhosts(anim)
    /\ IdleEngine

NextTiming ==
    \/ \E dt \in TimingDts(anim.config) : HandleDelayCall(dt)
    \/ HandleLoopCompletionCall

SpecTiming == InitTiming /\ [][NextTiming]_vars

----------------------------------------------------------------------------
(* The convergence run: the default spring from 0.0 to 100.0, stepped at a   *)
(* fixed frame time until it reports Completed.                              *)

StepMs == 16        \* the frame time, ms
StepLimit == 500    \* the number of steps the run is given

ConvergeTick ==
    /\ anim.kind = "spring" /\ anim.is_active
    /\ clock < StepLimit * StepMs
    /\ Recorded(SpringUpdate(anim, StepMs), StepMs)
    /\ clock' = clock + StepMs
    /\ UNCHANGED <<engineVars, cadence>>

InitConverge ==
    /\ anim = NewSpring(V(0), V(100), DefaultSpring, DefaultTiming)
    /\ cadence = StepMs
    /\ InitGhosts(anim)
    /\ IdleEngine

NextConverge == ConvergeTick

SpecConverge == InitConverge /\ [][NextConverge]_vars

----------------------------------------------------------------------------
(* A keyframe animation built by the caller and ticked with update(dt).      *)

\* The tables under test, as the builder calls that make them.
KeyframeTables(duration) ==
    { PlainTable(duration),
      AddKeyframe(AddKeyframeWithEasing(AddKeyframe(NewKeyframes(duration), 0, V(0)),
                                        50, V(20), "quad_in"),
                  PositionScale, V(10)),
      AddKeyframe(AddKeyframeWithEasing(NewKeyframes(duration), 0, V(0), "quad_in"),
                  PositionScale, V(10)),
      AddKeyframe(AddKeyframe(NewKeyframes(duration), 25, V(10)), 120, V(5)),
      AddKeyframe(AddKeyframe(NewKeyframes(duration), 0, V(0)), 50, V(20)) }

KeyframeDts == {0, 30, 50, 100}

\* The durations of the plain table played once without delay, ms: long enough for
\* ticks of KeyframeDts to sample tenths of it.
LongDurationSet == {500}

\* A keyframe animation that plays once is ticked by any of KeyframeDts, one that
\* loops by those of DtSet.
KeyframeTickDts(a) == IF a.timing.loop_mode = "None" THEN KeyframeDts ELSE DtSet

KeyframeTick(dt) ==
    /\ anim.kind = "keyframe"
    /\ dt \in KeyframeTickDts(anim)
    /\ WithinLoopBound(anim)
    /\ Observe(KeyframeUpdate(anim, dt), dt)

InitKeyframe ==
    /\ anim \in {WithTiming(a, tm) :
                    a \in UNION {KeyframeTables(DurationFromMillis(d)) : d \in DurationSet},
                    tm \in {t \in TimingConfigs : t.on_complete = OwnCb}}
               \cup {WithTiming(PlainTable(DurationFromMillis(d)),
                                [DefaultTiming EXCEPT !.on_complete = OwnCb]) :
                        d \in LongDurationSet}
    /\ cadence \in CadenceFor(anim)
    /\ InitGhosts(anim)
    /\ IdleEngine

NextKeyframe == \E dt \in KeyframeDts : KeyframeTick(dt)

SpecKeyframe == InitKeyframe /\ [][NextKeyframe]_vars

----------------------------------------------------------------------------
(* Tweens, springs and keyframe animations that loop forever, ticked with    *)
(* update(dt) for up to MaxLoops cycles.                                     *)

InfiniteTimings == {tm \in TimingConfigs : tm.loop_mode = "Infinite"}

InitInfinite ==
    /\ anim \in {NewTween(V(0), V(10), DurationFromMillis(d), tm) : d \in DurationSet, tm \in InfiniteTimings}
               \cup {NewSpring(V(0), V(10), StiffSpring, tm) :
                       tm \in {t \in InfiniteTimings : t.direction = "Forward"}}
               \cup {WithTiming(a, tm) :
                       a \in UNION {KeyframeTables(DurationFromMillis(d)) : d \in DurationSet},
                       tm \in {t \in InfiniteTimings : t.on_complete = OwnCb}}
    /\ cadence \in CadenceFor(anim)
    /\ InitGhosts(anim)
    /\ IdleEngine

NextInfinite ==
    \E dt \in AllDts \cup KeyframeDts : TweenTick(dt) \/ SpringTick(dt) \/ KeyframeTick(dt)

SpecInfinite == InitInfinite /\ [][NextInfinite]_vars

----------------------------------------------------------------------------
(* The Value Cell driven by its collaborators: builders that install         *)
(* animations, the tick source calling update(dt), the render consumer       *)
(* calling get(), and set() / stop().                                        *)

\* spring().stiffness(180.0).damping(12.0)
ScenarioSpring ==
    [stiffness |-> 1800, damping |-> 120, mass |-> 10, initial_velocity |-> None]

\* the frame time of the tick source that drives the cell's springs, ms
EngineCadenceSet == {50}

\* the tweens a caller animates with: target and duration in ms
EngineTweens ==
    {[target |-> V(10), duration |-> 100], [target |-> V(200), duration |-> 100]}
    \cup {[target |-> V(10), duration |-> d] : d \in FineDurationSet}
\* the spring a caller animates with: the scenario spring to 200.0
EngineSprings == {[target |-> V(200), spring |-> ScenarioSpring]}
EngineStepLists ==
    { <<NewTween(V(0), V(10), DurationFromMillis(d), DefaultTiming)>> : d \in FineDurationSet }
    \cup
    { <<NewTween(V(0), V(10), DurationFromMillis(100), DefaultTiming), NewTween(V(10), V(20), DurationFromMillis(100), DefaultTiming)>> }

\* The callback a builder may be given: none, or a fresh one.
CallbackChoices ==
    {NoCallback} \cup (IF registered < MaxCallbacks THEN {registered + 1} ELSE {})

AnimTarget(a) ==
    CASE a.kind = "tween" -> a.target
      [] a.kind = "spring" -> a.target
      [] OTHER -> Zero

Install(e, cb, op, target) ==
    /\ starts < MaxStarts
    /\ engine' = e
    /\ starts' = starts + 1
    /\ registered' = registered + (IF cb # NoCallback THEN 1 ELSE 0)
    /\ cancelled' = {}
    /\ lastOp' = Op(op, e.animation.kind, target, "none")
    /\ UNCHANGED <<invoked, animVars, cadence>>

\* motion.spring().stiffness(..).damping(..).on_complete(..).animate_to(target)
SpringAnimateTo(target, spring, cb) ==
    Install(EngineSpringTo(QueueCallback(engine, cb), target, spring), cb, "spring_to", target)

\* motion.tween().duration(..).on_complete(..).animate_to(target)
TweenAnimateTo(target, duration, cb) ==
    Install(EngineTweenTo(QueueCallback(engine, cb), target, DurationFromMillis(duration)),
            cb, "tween_to", target)

\* motion.sequence().then(..).on_complete(..).start()
SequenceStart(steps, cb) ==
    Install(SequenceBuilderStart(engine, steps, cb), cb, "apply_sequence", Zero)

\* What one engine.update(dt) that returned u leaves behind.
Updated(u) ==
    /\ engine' = u.engine
    /\ invoked' = [c \in CallbackIds |-> invoked[c] + CountIn(u.fired \o u.drained, c)]
    /\ lastOp' = Op("update", engine.animation.kind, AnimTarget(engine.animation), u.state)
    /\ UNCHANGED <<cancelled, registered, starts, animVars, cadence>>

\* the tick source: engine.update(dt)
Update(dt) ==
    /\ dt \in TickDts(engine.animation)
    /\ Updated(EngineUpdate(engine, dt))

\* MotionValue::stop
Stop ==
    /\ engine' = EngineStop(engine)
    /\ cancelled' = IF engine.is_active THEN Pending(engine) ELSE cancelled
    /\ lastOp' = Op("stop", engine.animation.kind, AnimTarget(engine.animation), "none")
    /\ UNCHANGED <<invoked, registered, starts, animVars, cadence>>

\* MotionValue::set
Set(value) ==
    /\ engine' = EngineSet(engine, value)
    /\ lastOp' = Op("set", engine.animation.kind, value, "none")
    /\ UNCHANGED <<invoked, cancelled, registered, starts, animVars, cadence>>

\* MotionValue::get
Get ==
    /\ EngineGet(engine) = engine.current
    /\ UNCHANGED vars

\* motion.keyframes().keyframe(..).duration(..).start()
MotionKeyframesStart(keys, duration, cb) ==
    Install(KeyframeBuilderStart(engine, keys, DurationFromMillis(duration), cb), cb,
            "apply_keyframes", Zero)

\* motion.group().add_animation(..).start()
MotionGroupStart(members, cb) ==
    Install(GroupBuilderStart(engine, members, cb), cb, "apply_group", Zero)

\* engine.apply_staggered(staggered), staggered a started stagger
ApplyStaggeredCall(staggered) ==
    Install(ApplyStaggered(engine, staggered), NoCallback, "apply_staggered", Zero)

InitEngine ==
    /\ engine = NewEngine(V(0))
    /\ invoked = [c \in CallbackIds |-> 0]
    /\ cancelled = {}
    /\ lastOp = Op("new", "none", Zero, "none")
    /\ registered = 0
    /\ starts = 0
    /\ anim = NoAnimation
    /\ InitGhosts(NoAnimation)
    /\ cadence \in EngineCadenceSet

NextEngine ==
    \/ \E sp \in EngineSprings, cb \in CallbackChoices :
          SpringAnimateTo(sp.target, sp.spring, cb)
    \/ \E t \in EngineTweens, cb \in CallbackChoices :
          TweenAnimateTo(t.target, t.duration, cb)
    \/ \E l \in EngineStepLists, cb \in CallbackChoices : SequenceStart(l, cb)
    \/ \E dt \in AllDts : Update(dt)
    \/ Stop
    \/ \E v \in {V(0)} : Set(v)
    \/ Get

SpecEngine == InitEngine /\ [][NextEngine]_vars

----------------------------------------------------------------------------
(* Tweens and keyframe animations configured with Duration::ZERO, with any   *)
(* timing configuration.                                                     *)

InitZeroDuration ==
    /\ anim \in {NewTween(V(0), V(10), DurationFromMillis(0), tm) : tm \in TimingConfigs}
               \cup {WithTiming(a, tm) : a \in KeyframeTables(0), tm \in TimingConfigs}
    /\ cadence \in CadenceFor(anim)
    /\ InitGhosts(anim)
    /\ IdleEngine

NextZeroDuration == \E dt \in AllDts \cup KeyframeDts : TweenTick(dt) \/ KeyframeTick(dt)

SpecZeroDuration == InitZeroDuration /\ [][NextZeroDuration]_vars

----------------------------------------------------------------------------
(* A Value Cell driving a staggered animation, as in                         *)
(* test_engine_with_staggered_animation: three 100 ms items 0->10, 0->20,    *)
(* 0->30 spaced 50 ms apart, or shorter staggers, with or without an         *)
(* on_complete callback, ticked by 10, 50 or 200 ms and stopped at any point. *)

StaggerCellItems ==
    { <<[animation |-> NewTween(V(0), V(10), DurationFromMillis(100), DefaultTiming), key |-> 0],
        [animation |-> NewTween(V(0), V(20), DurationFromMillis(100), DefaultTiming), key |-> 1],
        [animation |-> NewTween(V(0), V(30), DurationFromMillis(100), DefaultTiming), key |-> 2]>>,
      <<[animation |-> NewTween(V(0), V(10), DurationFromMillis(100), DefaultTiming), key |-> 0],
        [animation |-> NewTween(V(0), V(20), DurationFromMillis(100), DefaultTiming), key |-> 1]>>,
      <<[animation |-> NewTween(V(0), V(10), DurationFromMillis(100), DefaultTiming), key |-> 1]>> }

\* stagger().delay_between(50 ms).add(..).add(..).start(), as the test builds it
TestCascade(l) ==
    StaggerStart(BuildCascade(DelayBetween(NewStagger, DurationFromMillis(50)), l))

StaggerCellDts == {10, 50, 200}

\* engine.update(dt) with the test's time steps
StaggerCellUpdate(dt) == Updated(EngineUpdate(engine, dt))

\* the stagger is installed without a callback or, as in
\* test_engine_with_staggered_callback, with on_complete set before start(), each
\* stagger with a callback of its own; stop() may discard it at any point
NextStaggerCell ==
    \/ \E l \in StaggerCellItems, cb \in {NoCallback} \cup ({starts + 1} \cap CallbackIds) :
          ApplyStaggeredCall(StaggerOnComplete(TestCascade(l), cb))
    \/ \E dt \in StaggerCellDts : StaggerCellUpdate(dt)
    \/ Stop

SpecStaggerCell == InitEngine /\ [][NextStaggerCell]_vars

----------------------------------------------------------------------------
(* A sequence ticked with update(dt) and rewound with reset() at any point.  *)

ResetMembers ==
    { NewTween(V(0), V(10), DurationFromMillis(100), DefaultTiming),
      NewTween(V(10), V(20), DurationFromMillis(100), Timing("None", 0, "Forward", 100, NoCallback)),
      NewTween(V(0), V(10), DurationFromMillis(100), Timing("Count", 2, "Alternate", 0, MemberCb)),
      NewSpring(V(0), V(10), StiffSpring, DefaultTiming) }

ResetLists ==
    {<<>>} \cup {<<a>> : a \in ResetMembers}
           \cup {<<a, b>> : a \in ResetMembers, b \in ResetMembers}

\* sequence.reset(); starts counts the resets
SeqResetCall ==
    /\ anim.kind = "sequence"
    /\ starts < MaxStarts
    /\ anim' = SeqReset(anim)
    /\ res' = [InitRes EXCEPT !.op = "reset"]
    /\ starts' = starts + 1
    /\ UNCHANGED <<engine, invoked, cancelled, lastOp, registered, cbCount, cycles,
                   calls, retDone, clock, cadence>>

\* lastOp keeps the sequence as it was built
InitSeqReset ==
    /\ anim \in {SeqStart(SeqOnComplete(BuildSequence(NewSequence, l), OwnCb)) :
                    l \in ResetLists}
    /\ cadence \in CadenceFor(anim)
    /\ InitGhosts(anim)
    /\ engine = NewEngine(Zero)
    /\ invoked = [c \in CallbackIds |-> 0]
    /\ cancelled = {}
    /\ lastOp = [op |-> "new", fresh |-> anim]
    /\ registered = 0
    /\ starts = 0

NextSeqReset == (\E dt \in AllDts : SeqTick(dt)) \/ SeqResetCall

SpecSeqReset == InitSeqReset /\ [][NextSeqReset]_vars

----------------------------------------------------------------------------
(* Natural numbers of any size, as f64 arithmetic needs them for its 53-bit
   mantissas and their products: the sequence of the number's digits in base 2^12,
   lowest first, without leading zero digits; zero is the empty sequence. *)

Limb == 2^12

RECURSIVE BigTrim(_)
BigTrim(x) ==
    IF x = <<>> THEN <<>>
    ELSE IF x[Len(x)] = 0 THEN BigTrim(SubSeq(x, 1, Len(x) - 1))
    ELSE x

RECURSIVE BigOfInt(_)
BigOfInt(n) == IF n = 0 THEN <<>> ELSE <<n % Limb>> \o BigOfInt(n \div Limb)

\* the value of x, which must lie below 2^31
RECURSIVE BigToInt(_)
BigToInt(x) == IF x = <<>> THEN 0 ELSE Head(x) + Limb * BigToInt(Tail(x))

BigLimb(x, i) == IF i <= Len(x) THEN x[i] ELSE 0

BigBitLen(x) == IF x = <<>> THEN 0 ELSE 12 * (Len(x) - 1) + BitLen(x[Len(x)])

\* x + y + carry from digit i on
RECURSIVE BigAddFrom(_, _, _, _)
BigAddDigit(x, y, i, sum) == <<sum % Limb>> \o BigAddFrom(x, y, i + 1, sum \div Limb)

BigAddFrom(x, y, i, carry) ==
    IF i > Max(Len(x), Len(y)) THEN (IF carry = 0 THEN <<>> ELSE <<carry>>)
    ELSE BigAddDigit(x, y, i, BigLimb(x, i) + BigLimb(y, i) + carry)

BigAdd(x, y) == BigAddFrom(x, y, 1, 0)

\* x - y - borrow from digit i on, x >= y
RECURSIVE BigSubFrom(_, _, _, _)
BigSubDigit(x, y, i, diff) ==
    <<(diff + Limb) % Limb>> \o BigSubFrom(x, y, i + 1, IF diff < 0 THEN 1 ELSE 0)

BigSubFrom(x, y, i, borrow) ==
    IF i > Len(x) THEN <<>>
    ELSE BigSubDigit(x, y, i, x[i] - BigLimb(y, i) - borrow)

BigSub(x, y) == BigTrim(BigSubFrom(x, y, 1, 0))

\* x < y, decided at the highest digit where they differ, digit i downward
RECURSIVE BigLtFrom(_, _, _)
BigLtFrom(x, y, i) ==
    IF i = 0 THEN FALSE
    ELSE IF x[i] # y[i] THEN x[i] < y[i]
    ELSE BigLtFrom(x, y, i - 1)

BigLt(x, y) ==
    IF Len(x) # Len(y) THEN Len(x) < Len(y) ELSE BigLtFrom(x, y, Len(x))

\* x * d + carry from digit i on, for a single digit d
RECURSIVE BigMulLimbFrom(_, _, _, _)
BigMulLimbDigit(x, d, i, prod) ==
    <<prod % Limb>> \o BigMulLimbFrom(x, d, i + 1, prod \div Limb)

BigMulLimbFrom(x, d, i, carry) ==
    IF i > Len(x) THEN (IF carry = 0 THEN <<>> ELSE <<carry>>)
    ELSE BigMulLimbDigit(x, d, i, x[i] * d + carry)

BigMulLimb(x, d) == BigTrim(BigMulLimbFrom(x, d, 1, 0))

\* x * y, digit by digit of y
RECURSIVE BigMul(_, _)
BigMul(x, y) ==
    IF y = <<>> THEN <<>>
    ELSE BigTrim(BigAdd(BigMulLimb(x, Head(y)), <<0>> \o BigMul(x, Tail(y))))

\* x * 2^s
BigShl(x, s) ==
    IF x = <<>> THEN <<>>
    ELSE [i \in 1..(s \div 12) |-> 0] \o BigMulLimb(x, 2^(s % 12))

\* x / 2^s, the fraction dropped
BigShr(x, s) ==
    BigTrim([i \in 1..Max(0, Len(x) - (s \div 12)) |->
                (BigLimb(x, i + (s \div 12)) \div 2^(s % 12))
                    + (BigLimb(x, i + (s \div 12) + 1) % 2^(s % 12)) * 2^(12 - (s % 12))])

\* bit k of x, bit 0 the lowest
BigBit(x, k) == (BigLimb(x, (k \div 12) + 1) \div 2^(k % 12)) % 2

\* whether x has a bit set below bit k
BigAnyBelow(x, k) ==
    \/ \E i \in 1..Min(Len(x), k \div 12) : x[i] # 0
    \/ BigLimb(x, (k \div 12) + 1) % 2^(k % 12) # 0

----------------------------------------------------------------------------
(* f64 as the hardware computes it (IEEE 754 double precision).  A finite number is
   s * m * 2^e with sign s, 2^52 <= m < 2^53 and -1074 <= e <= 971, or a subnormal
   with 0 < m < 2^52 and e = -1074, or zero (m = 0, e = 0, s = 1; zero carries no
   sign); the infinities and NaN sit at e = 972. *)

F64Zero == [s |-> 1, m |-> <<>>, e |-> 0]

F64Inf(sign) == [s |-> sign, m |-> <<1>>, e |-> 972]

F64NaN == [s |-> 1, m |-> <<>>, e |-> 972]

F64IsNaN(a) == a = F64NaN

F64IsInf(a) == a.e = 972 /\ a.m # <<>>

\* The f64 of mantissa q <= 2^53 at exponent e >= -1074
F64Pack(sign, q, e) ==
    IF q = <<>> THEN F64Zero
    ELSE IF BigBitLen(q) = 54
    THEN (IF e + 1 > 971 THEN F64Inf(sign) ELSE [s |-> sign, m |-> BigShr(q, 1), e |-> e + 1])
    ELSE IF e > 971 THEN F64Inf(sign)
    ELSE [s |-> sign, m |-> q, e |-> e]

\* n / 2^k, k > 0, rounded to the nearest integer, ties to even
BigRoundShift(n, k) ==
    IF BigBit(n, k - 1) = 1 /\ (BigAnyBelow(n, k - 1) \/ BigBit(n, k) = 1)
    THEN BigAdd(BigShr(n, k), <<1>>)
    ELSE BigShr(n, k)

\* The f64 nearest to sign * n * 2^e, len = BigBitLen(n): the mantissa keeps 53 bits,
\* fewer in the subnormal range, where the exponent stays at -1074.
F64RoundLen(sign, n, e, len) ==
    IF Max(len - 53, -1074 - e) > 0
    THEN F64Pack(sign, BigRoundShift(n, Max(len - 53, -1074 - e)),
                 e + Max(len - 53, -1074 - e))
    ELSE F64Pack(sign, BigShl(n, Min(53 - len, e + 1074)), e - Min(53 - len, e + 1074))

F64Round(sign, n, e) == F64RoundLen(sign, n, e, BigBitLen(n))

\* n as f64
F64FromInt(n) == F64Round(Sign(n), BigOfInt(Abs(n)), 0)

F64One == F64FromInt(1)

\* "as f64" of an f32: exact
F64OfF32(f) ==
    IF IsNaN(f) THEN F64NaN
    ELSE IF IsInf(f) THEN F64Inf(Sign(f.m))
    ELSE F64Round(Sign(f.m), BigOfInt(Abs(f.m)), f.e)

\* "as f32" of an f64: rounded to the nearest f32, from the leading 30 bits of the
\* mantissa and whether anything lies beyond them
F64ToF32(a) ==
    IF F64IsNaN(a) THEN F32NaN
    ELSE IF F64IsInf(a) THEN F32Inf(a.s)
    ELSE IF BigBitLen(a.m) <= 30 THEN F32Round(a.s, BigToInt(a.m), a.e, FALSE)
    ELSE F32Round(a.s, BigToInt(BigShr(a.m, BigBitLen(a.m) - 30)),
                  a.e + BigBitLen(a.m) - 30, BigAnyBelow(a.m, BigBitLen(a.m) - 30))

\* f64::abs
F64Abs(a) == [a EXCEPT !.s = 1]

\* -a
F64Neg(a) == IF a.m = <<>> THEN a ELSE [a EXCEPT !.s = -a.s]

\* x * 2^e + y * 2^e with the signs sx, sy, rounded
F64AddExact(sx, x, sy, y, e) ==
    IF sx = sy THEN F64Round(sx, BigAdd(x, y), e)
    ELSE IF BigLt(x, y) THEN F64Round(sy, BigSub(y, x), e)
    ELSE F64Round(sx, BigSub(x, y), e)

\* a + b for nonzero finite a, b with a.e >= b.e; a b more than 64 binary places
\* below a lies under a quarter of a's last place and leaves a as it is
F64AddOrdered(a, b) ==
    IF a.e - b.e > 64 THEN a
    ELSE F64AddExact(a.s, BigShl(a.m, a.e - b.e), b.s, b.m, b.e)

\* a + b
F64Add(a, b) ==
    IF F64IsNaN(a) \/ F64IsNaN(b) THEN F64NaN
    ELSE IF F64IsInf(a) THEN (IF F64IsInf(b) /\ a.s # b.s THEN F64NaN ELSE a)
    ELSE IF F64IsInf(b) THEN b
    ELSE IF a.m = <<>> THEN b
    ELSE IF b.m = <<>> THEN a
    ELSE IF a.e >= b.e THEN F64AddOrdered(a, b) ELSE F64AddOrdered(b, a)

\* a - b
F64Sub(a, b) == F64Add(a, F64Neg(b))

\* a * b
F64Mul(a, b) ==
    IF F64IsNaN(a) \/ F64IsNaN(b) THEN F64NaN
    ELSE IF F64IsInf(a) \/ F64IsInf(b)
    THEN (IF a.m = <<>> \/ b.m = <<>> THEN F64NaN ELSE F64Inf(a.s * b.s))
    ELSE IF a.m = <<>> \/ b.m = <<>> THEN F64Zero
    ELSE F64Round(a.s * b.s, BigMul(a.m, b.m), a.e + b.e)

----------------------------------------------------------------------------
(* Animatable::interpolate for f32, f64, i32, Color and Transform, applied   *)
(* to bounded inputs.  A value is a record of its components, f32 numbers    *)
(* but for the f64 of an f64 value and the integer of an i32 value; t is an  *)
(* f32 that may lie outside [0, 1].                                          *)

\* f32::interpolate: self * (1.0 - t) + target * t with t clamped
FloatInterpolate(a, b, t) == [v |-> Interpolate(a.v, b.v, t)]

\* self * (1.0 - t) + target * t in double precision
DoubleLerp(a, b, t) == F64Add(F64Mul(a, F64Sub(F64One, t)), F64Mul(b, t))

\* f64::interpolate: let t = t.clamp(0.0, 1.0) as f64; self * (1.0 - t) + target * t
DoubleInterpolate(a, b, t) ==
    [v |-> DoubleLerp(a.v, b.v, F64OfF32(F32Clamp(t, F32Zero, F32One)))]

\* i32::interpolate: (self as f32 * (1.0 - t) + target as f32 * t) as i32, the cast
\* truncating toward zero
IntInterpolate(a, b, t) ==
    [v |-> F32ToInt(Interpolate(F32FromInt(a.v), F32FromInt(b.v), t))]

\* Color::new: every component clamped to [0.0, 1.0]
NewColor(r, g, b, a) ==
    [r |-> F32Clamp(r, F32Zero, F32One), g |-> F32Clamp(g, F32Zero, F32One),
     b |-> F32Clamp(b, F32Zero, F32One), a |-> F32Clamp(a, F32Zero, F32One)]

\* Color::interpolate
ColorInterpolate(a, b, t) ==
    NewColor(Interpolate(a.r, b.r, t), Interpolate(a.g, b.g, t),
             Interpolate(a.b, b.b, t), Interpolate(a.a, b.a, t))

\* std::f32::consts::PI = 0x40490fdb
Pi == [m |-> 13176795, e |-> -22]

\* Transform::new
NewTransform(x, y, scale_x, scale_y, rotation, skew_x, skew_y) ==
    [x |-> x, y |-> y, scale_x |-> scale_x, scale_y |-> scale_y, rotation |-> rotation,
     skew_x |-> skew_x, skew_y |-> skew_y]

\* Transform::interpolate: the rotation difference taken the shortest way around
ShortestRotation(diff) ==
    IF F32Lt(Pi, diff) THEN F32Sub(diff, F32Mul(F32FromInt(2), Pi))
    ELSE IF F32Lt(diff, F32Neg(Pi)) THEN F32Add(diff, F32Mul(F32FromInt(2), Pi))
    ELSE diff

\* self.x + (target.x - self.x) * t
Lerp(from, to, t) == F32Add(from, F32Mul(F32Sub(to, from), t))

\* Transform::interpolate with t clamped
TransformInterpolateClamped(a, b, t) ==
    NewTransform(Lerp(a.x, b.x, t), Lerp(a.y, b.y, t),
                 Lerp(a.scale_x, b.scale_x, t), Lerp(a.scale_y, b.scale_y, t),
                 F32Add(a.rotation,
                        F32Mul(ShortestRotation(F32Sub(b.rotation, a.rotation)), t)),
                 Lerp(a.skew_x, b.skew_x, t), Lerp(a.skew_y, b.skew_y, t))

\* Transform::interpolate
TransformInterpolate(a, b, t) ==
    TransformInterpolateClamped(a, b, F32Clamp(t, F32Zero, F32One))

\* <T as Animatable>::interpolate
TypedInterpolate(type, a, b, t) ==
    CASE type = "f32" -> FloatInterpolate(a, b, t)
      [] type = "f64" -> DoubleInterpolate(a, b, t)
      [] type = "i32" -> IntInterpolate(a, b, t)
      [] type = "Color" -> ColorInterpolate(a, b, t)
      [] type = "Transform" -> TransformInterpolate(a, b, t)

\* the values of each type the interpolation is tried on
TypedValues(type) ==
    CASE type = "f32" -> {[v |-> V(n)] : n \in {-10, 0, 5, 10}}
      [] type = "f64" -> {[v |-> F64FromInt(n)] : n \in {-10, 0, 5, 10}}
      [] type = "i32" -> {[v |-> n] : n \in {-7, 0, 3, 10}}
      [] type = "Color" -> {NewColor(F32(r, 4), F32(1, 2), V(0), V(a)) :
                              r \in {0, 1, 4}, a \in {0, 1}}
      [] type = "Transform" ->
            {NewTransform(x, V(0), V(1), V(2), V(rotation), V(0), V(0)) :
                x \in {V(0), V(10)}, rotation \in {-3, 0, 1, 3}}

\* t below 0, at 0, inside (0, 1), at 1 and above 1, and the f32 nearest to 0.3
TSet == {F32(n, 4) : n \in {-2, 0, 1, 2, 4, 6}} \cup {F32(3, 10)}

InterpolateCall(t) ==
    /\ anim.kind = "interpolation"
    /\ res' = [op |-> "interpolate", t |-> t,
               value |-> TypedInterpolate(anim.type, anim.a, anim.b, t)]
    /\ UNCHANGED <<engineVars, anim, cbCount, cycles, calls, retDone, clock, cadence>>

InitInterpolate ==
    /\ \E type \in {"f32", "f64", "i32", "Color", "Transform"} :
          anim \in {[kind |-> "interpolation", type |-> type, a |-> a, b |-> b] :
                      a \in TypedValues(type), b \in TypedValues(type)}
    /\ cadence \in CadenceFor(anim)
    /\ InitGhosts(anim)
    /\ IdleEngine

NextInterpolate == \E t \in TSet : InterpolateCall(t)

SpecInterpolate == InitInterpolate /\ [][NextInterpolate]_vars

----------------------------------------------------------------------------
(* An engine of any kind, tween, spring, keyframe, sequence, group or        *)
(* stagger, ticked with update(dt) to completion and beyond.                 *)

AnyTimings ==
    { Timing("None", 0, "Forward", 0, OwnCb),
      Timing("None", 0, "Reverse", 100, OwnCb),
      Timing("Count", 2, "Alternate", 0, OwnCb) }

\* Combinators whose members are combinators: a sequence of a group and a sequence,
\* and a group of a sequence and a sequence that was never started.
NestedConfigs ==
    { SeqStart(SeqOnComplete(BuildSequence(NewSequence,
        << GroupStart(BuildGroup(NewGroup,
              << NewTween(V(0), V(10), DurationFromMillis(100), DefaultTiming),
                 MemberKeyframes >>)),
           SeqStart(BuildSequence(NewSequence,
              << NewTween(V(10), V(0), DurationFromMillis(54), DefaultTiming) >>)) >>),
        OwnCb)),
      GroupStart(GroupOnComplete(BuildGroup(NewGroup,
        << SeqStart(BuildSequence(NewSequence,
              << NewTween(V(0), V(10), DurationFromMillis(54), DefaultTiming),
                 NewTween(V(10), V(20), DurationFromMillis(100), DefaultTiming) >>)),
           BuildSequence(NewSequence,
              << NewTween(V(0), V(10), DurationFromMillis(100), DefaultTiming) >>) >>),
        OwnCb)) }

AnyKindConfigs ==
    NestedConfigs \cup
    {NewTween(V(0), V(10), DurationFromMillis(d), tm) : d \in {0, 100}, tm \in AnyTimings}
    \cup {NewSpring(V(0), V(10), StiffSpring, tm) :
            tm \in {t \in AnyTimings : t.direction # "Reverse"}}
    \cup {WithTiming(a, tm) : a \in KeyframeTables(DurationFromMillis(100)), tm \in AnyTimings}
    \cup {SeqStart(SeqOnComplete(BuildSequence(NewSequence, l), OwnCb)) : l \in ResetLists}
    \cup {GroupStart(GroupOnComplete(BuildGroup(NewGroup, l), OwnCb)) : l \in ResetLists}
    \cup {StaggerOnComplete(TestCascade(l), OwnCb) : l \in StaggerCellItems \cup {<<>>}}

InitAnyKind ==
    /\ anim \in AnyKindConfigs
    /\ cadence \in CadenceFor(anim)
    /\ InitGhosts(anim)
    /\ IdleEngine

NextAnyKind ==
    \E dt \in AllDts \cup KeyframeDts :
        \/ TweenTick(dt)
        \/ SpringTick(dt)
        \/ KeyframeTick(dt)
        \/ SeqTick(dt)
        \/ GroupTick(dt)
        \/ StaggerTick(dt)

SpecAnyKind == InitAnyKind /\ [][NextAnyKind]_vars

-----------------------------------------------------------------------------
(* A tween, a spring or a keyframe animation that is ticked and reset.  The
   instance as constructed is kept in lastOp, so that a reset instance can be
   compared with a fresh one of the same configuration. *)

LeafResetTimings ==
    {Timing(m[1], m[2], d, dl, NoCallback) :
        m \in {<<"None", 0>>, <<"Count", 2>>, <<"Infinite", 0>>},
        d \in Directions, dl \in DelaySet}

LeafResetConfigs ==
    {NewTween(V(0), V(10), DurationFromMillis(100), tm) : tm \in LeafResetTimings}
    \cup {NewSpring(V(0), V(10), StiffSpring, tm) :
            tm \in {t \in LeafResetTimings : t.direction = "Forward"}}
    \cup {WithTiming(a, tm) : a \in KeyframeTables(DurationFromMillis(100)), tm \in LeafResetTimings}

LeafResetDts == {50, 100}

LeafResetCall ==
    /\ anim.kind \in {"tween", "spring", "keyframe"}
    /\ starts < MaxStarts
    /\ anim' = LeafReset(anim)
    /\ res' = [InitRes EXCEPT !.op = "reset"]
    /\ starts' = starts + 1
    /\ UNCHANGED <<engine, invoked, cancelled, lastOp, registered, cbCount, cycles,
                   calls, retDone, clock, cadence>>

InitLeafReset ==
    /\ anim \in LeafResetConfigs
    /\ cadence \in CadenceFor(anim)
    /\ InitGhosts(anim)
    /\ engine = NewEngine(Zero)
    /\ invoked = [c \in CallbackIds |-> 0]
    /\ cancelled = {}
    /\ lastOp = [op |-> "new", fresh |-> anim]
    /\ registered = 0
    /\ starts = 0

NextLeafReset ==
    \/ \E dt \in LeafResetDts :
        \/ TweenTick(dt)
        \/ SpringTick(dt)
        \/ KeyframeTick(dt)
    \/ LeafResetCall

SpecLeafReset == InitLeafReset /\ [][NextLeafReset]_vars

\* The (state, value) results of updating a by the steps dts in turn.
RECURSIVE Replay(_, _)
\* the results from an update that returned r on
ReplayFrom(r, dts) == <<<<r.state, r.value>>>> \o Replay(r.anim, dts)

Replay(a, dts) ==
    IF dts = <<>> THEN <<>> ELSE ReplayFrom(AnimUpdate(a, Head(dts)), Tail(dts))

ReplayLen == 3

ReplaySteps == UNION {[1..n -> LeafResetDts] : n \in 1..ReplayLen}

----------------------------------------------------------------------------
(* Configuring a spring through Spring's setters or through the cell's       *)
(* spring() builder, then starting it.                                       *)

\* SpringBuilder::stiffness, SpringBuilder::damping, SpringBuilder::mass
BuilderStiffness(spring, stiffness) == [spring EXCEPT !.stiffness = stiffness]

BuilderDamping(spring, damping) == [spring EXCEPT !.damping = damping]

BuilderMass(spring, mass) == [spring EXCEPT !.mass = mass]

\* Spring::new() and SpringBuilder::new both begin with Spring::default()
SpringConfig(surface) == [kind |-> "spring_config", surface |-> surface, spring |-> DefaultSpring]

\* the supplied coefficients, in tenths: negative, zero, the floor and an ordinary value
ConfigValues == {-10, 0, 1, 500}

Configuring == anim.kind = "spring_config" /\ engine.animation = NoAnimation

Configured(spring) ==
    /\ Configuring
    /\ anim' = [anim EXCEPT !.spring = spring]
    /\ UNCHANGED <<engineVars, res, cbCount, cycles, calls, retDone, clock, cadence>>

ConfigStiffness(k) ==
    Configured(IF anim.surface = "Spring" THEN SpringStiffness(anim.spring, k)
               ELSE BuilderStiffness(anim.spring, k))

ConfigDamping(c) ==
    Configured(IF anim.surface = "Spring" THEN SpringDamping(anim.spring, c)
               ELSE BuilderDamping(anim.spring, c))

ConfigMass(m) ==
    Configured(IF anim.surface = "Spring" THEN SpringMass(anim.spring, m)
               ELSE BuilderMass(anim.spring, m))

\* engine.spring_to(target, spring) with the Spring built by the setters, or
\* motion.spring()...animate_to(target)
ConfigAnimateTo(target) ==
    /\ Configuring
    /\ engine' = EngineSpringTo(engine, target, anim.spring)
    /\ lastOp' = Op("spring_to", "spring", target, "none")
    /\ starts' = starts + 1
    /\ UNCHANGED <<invoked, cancelled, registered, animVars, cadence>>

InitSpringConfig ==
    /\ anim \in {SpringConfig(surface) : surface \in {"Spring", "SpringBuilder"}}
    /\ cadence \in CadenceFor(anim)
    /\ InitGhosts(anim)
    /\ IdleEngine

NextSpringConfig ==
    \/ \E k \in ConfigValues : ConfigStiffness(k)
    \/ \E c \in ConfigValues : ConfigDamping(c)
    \/ \E m \in ConfigValues : ConfigMass(m)
    \/ \E target \in {V(10)} : ConfigAnimateTo(target)

SpecSpringConfig == InitSpringConfig /\ [][NextSpringConfig]_vars

----------------------------------------------------------------------------
(* The Value Cell with every builder: spring, tween, keyframes, sequence and *)
(* group, started from any state of the cell, with set() and stop().         *)

\* KeyframeBuilder::keyframe: the pushed (position, value, easing)
KeyframeEntry(position, value) ==
    [position |-> ClampPosition(position), value |-> value, easing |-> "none"]

CellKeyframes ==
    { <<KeyframeEntry(0, V(0)), KeyframeEntry(PositionScale, V(10))>>,
      <<KeyframeEntry(50, V(20))>> }

CellMembers == { <<>>, <<NewTween(V(0), V(10), DurationFromMillis(100), DefaultTiming)>> }

CellItems ==
    { <<>>, <<[animation |-> NewTween(V(0), V(10), DurationFromMillis(100), DefaultTiming), delay |-> 0]>> }

CellValues == {V(0), V(5)}

NextCell ==
    \/ SpringAnimateTo(V(10), StiffSpring, NoCallback)
    \/ TweenAnimateTo(V(10), 100, NoCallback)
    \/ \E k \in CellKeyframes : MotionKeyframesStart(k, 100, NoCallback)
    \/ \E l \in CellMembers : SequenceStart(l, NoCallback)
    \/ \E l \in CellMembers : MotionGroupStart(l, NoCallback)
    \/ \E l \in CellItems : ApplyStaggeredCall(StaggerStart(BuildStagger(NewStagger, l)))
    \/ \E dt \in AllDts : Update(dt)
    \/ Stop
    \/ \E v \in CellValues : Set(v)
    \/ Get

SpecCell == InitEngine /\ [][NextCell]_vars

----------------------------------------------------------------------------
(* Properties of the Value Cell (SpecEngine).                               *)

\* The callbacks held in the engine's queue (add_completion_callback).
Queued(e) == {e.callbacks[i] : i \in DOMAIN e.callbacks}

\* C1: when the installed animation returns Completed from update(dt), the cell clears
\* the engine and, within that same update, invokes every callback that was queued with
\* add_completion_callback.
C1_CompletionInvokesQueuedCallbacks ==
    [][(lastOp'.op = "update" /\ lastOp'.state = "Completed")
         => /\ engine'.animation = NoAnimation
            /\ ~engine'.is_active
            /\ \A c \in Queued(engine) : invoked'[c] = invoked[c] + 1]_vars

\* C2: a callback that was pending when stop() hit an active animation is never invoked
\* by later update(dt) / get() calls as long as no new animation is installed.
C2_StoppedCallbackNeverInvoked ==
    \A c \in cancelled : invoked[c] = 0

\* An update made after a stop() that cancelled the on_complete of a live sequence.
C2_Witness ==
    /\ lastOp.op = "update"
    /\ \E c \in cancelled : c \notin Queued(engine)

\* C3: spring_to on a cell whose active spring has been stepped to value x with velocity
\* v installs a spring animation with initial = current = x and velocity = v.  (x and v
\* are what the cell holds after the step: the spring's value and velocity.)
C3_RedirectKeepsValueAndVelocity ==
    [][(/\ lastOp'.op = "spring_to"
        /\ lastOp.op = "update"
        /\ engine.is_active
        /\ engine.animation.kind = "spring")
         => /\ engine.current = SpringValue(engine.animation)
            /\ engine.velocity = engine.animation.velocity
            /\ engine'.animation.kind = "spring"
            /\ engine'.animation.initial = engine.current
            /\ engine'.animation.current = engine.current
            /\ engine'.animation.velocity = engine.velocity
            /\ engine'.animation.target = lastOp'.target]_vars

\* A freshly installed spring that starts away from rest: only a redirected live spring
\* hands over a nonzero velocity.
C3_Witness ==
    /\ lastOp.op = "spring_to"
    /\ engine.animation.kind = "spring"
    /\ engine.animation.velocity # F32Zero
    /\ engine.animation.current # F32Zero
    /\ engine.animation.initial = engine.animation.current

\* C4: when a spring returns Completed its value is exactly its target, so the cell that
\* ran it is inactive and get() returns exactly the target.
C4_CompletedSpringAtTarget ==
    (lastOp.op = "update" /\ lastOp.kind = "spring" /\ lastOp.state = "Completed")
      => /\ ~EngineIsActive(engine)
         /\ EngineGet(engine) = lastOp.target

\* The spring to 200.0 has settled.
C4_Witness ==
    /\ lastOp.op = "update" /\ lastOp.kind = "spring" /\ lastOp.state = "Completed"
    /\ lastOp.target = V(200)
    /\ EngineGet(engine) = V(200)

----------------------------------------------------------------------------
(* Properties of the timing state machine under a leaf engine (SpecLeaf).   *)

\* C5: with LoopMode::Count(n), n >= 1, and a completion callback, the per-cycle
\* completions 1..n-1 return true without invoking the callback, the n-th invokes it and
\* returns false, and over the whole run the callback is invoked exactly once.
C5_CountLoopCallbackOnce ==
    (anim.kind \in {"tween", "spring"} /\ anim.timing.loop_mode = "Count"
        /\ anim.timing.count >= 1 /\ anim.timing.on_complete # NoCallback) =>
    LET n == anim.timing.count IN
        /\ cycles <= n
        /\ cbCount[OwnCb] = (IF cycles >= n THEN 1 ELSE 0)
        /\ anim.is_active = (cycles < n)
        /\ res.loopRet # "none" =>
              /\ (res.loopRet = "true") = (cycles < n)
              /\ res.fired = (IF cycles < n THEN <<>> ELSE <<OwnCb>>)
              /\ (res.state = "Completed") = (cycles = n)

C5_Witness ==
    /\ anim.kind = "tween"
    /\ anim.timing.loop_mode = "Count" /\ anim.timing.count >= 3
    /\ anim.timing.on_complete = OwnCb
    /\ cycles = anim.timing.count
    /\ res.loopRet = "false"
    /\ cbCount[OwnCb] = 1

----------------------------------------------------------------------------
(* Properties of the sequence engine (SpecSeq). *)

TraceMembers(tr) == {tr[k].member : k \in DOMAIN tr}

\* C6: step k+1 is never updated before step k has returned Completed, a step that has
\* returned Completed is never updated again, and an update of an active sequence
\* updates exactly one step, the current one.
C6_StepsStrictlyOrdered ==
    [][anim.kind = "sequence" =>
        /\ anim.is_active =>
              /\ Len(res'.trace) = 1
              /\ res'.trace[1].member = anim.current_step + 1
        /\ \A k \in DOMAIN res'.trace :
              /\ \A j \in 1..(res'.trace[k].member - 1) : retDone[j]
              /\ ~retDone[res'.trace[k].member]]_vars

C6_Witness ==
    /\ anim.kind = "sequence" /\ Len(anim.steps) >= 2
    /\ retDone[1] /\ calls[2] >= 1 /\ ~retDone[2]
    /\ res.trace # <<>> /\ res.trace[1].member = 2

\* C7: on the tick where a non-final step returns Completed the sequence returns Active
\* with that step's final value, advances current_step by one with the new step marked
\* started, and does not update the new step; the new step's first update gets the next
\* tick's dt in full.
C7_TransitionTick ==
    [][anim.kind = "sequence" /\ res'.trace # <<>> =>
        LET c == res'.trace[1]
            k == c.member
        IN
        /\ (c.state = "Completed" /\ k < Len(anim.steps)) =>
              /\ res'.state = "Active"
              /\ res'.value = c.value
              /\ res'.value = LeafValue(anim'.steps[k].animation)
              /\ anim'.current_step = anim.current_step + 1
              /\ anim'.steps[k + 1].started
              /\ calls'[k + 1] = 0
              /\ anim'.steps[k + 1].animation = anim.steps[k + 1].animation
        /\ calls[k] = 0 =>
              /\ c.dt = res'.dt
              /\ LET b == anim.steps[k].animation IN
                 (b.kind = "tween" /\ b.timing.delay = 0 /\ b.timing.loop_mode = "None") =>
                     anim'.steps[k].animation.elapsed = DurationFromSecsF32(res'.dt)]_vars

C7_Witness ==
    /\ anim.kind = "sequence" /\ Len(anim.steps) >= 2
    /\ res.trace # <<>> /\ res.trace[1].member = 1 /\ res.trace[1].state = "Completed"
    /\ res.state = "Active" /\ res.dt > 0
    /\ anim.current_step = 1 /\ anim.steps[2].started /\ calls[2] = 0

\* C8: a started sequence with at least one step returns Completed exactly on the tick
\* where its final step returns Completed; on that tick it becomes inactive and invokes
\* its on_complete callback, which is invoked exactly once.
C8_CompletesWithFinalStep ==
    [][(anim.kind = "sequence" /\ Len(anim.steps) >= 1) =>
        LET finalDone == \E k \in DOMAIN res'.trace :
                            /\ res'.trace[k].member = Len(anim.steps)
                            /\ res'.trace[k].state = "Completed"
            own == IF anim.on_complete # NoCallback THEN 1 ELSE 0
        IN
        IF anim.is_active
        THEN /\ (res'.state = "Completed") = finalDone
             /\ anim'.is_active = ~finalDone
             /\ cbCount'[OwnCb] = cbCount[OwnCb] + (IF finalDone THEN own ELSE 0)
             /\ cbCount[OwnCb] = 0
        ELSE /\ cbCount'[OwnCb] = cbCount[OwnCb]
             /\ cbCount[OwnCb] = own]_vars

C8_Witness ==
    /\ anim.kind = "sequence" /\ Len(anim.steps) >= 2
    /\ anim.on_complete = OwnCb
    /\ res.state = "Completed" /\ res.trace # <<>>
    /\ res.trace[1].member = Len(anim.steps)
    /\ ~anim.is_active
    /\ cbCount[OwnCb] = 1

----------------------------------------------------------------------------
(* Properties of the group engine (SpecGroup). *)

\* The velocities the member updates of a tick returned, added up from zero in call
\* order.
RECURSIVE SumReported(_, _, _)
SumReported(tr, k, sum) ==
    IF k > Len(tr) THEN sum ELSE SumReported(tr, k + 1, Add(sum, tr[k].velocity))

\* C9: on every tick the value and velocity returned by AnimationGroup::update are the
\* sums of the current values and velocities of all members, completed earlier or not.
\* (A member that completed reports zero velocity, the others what their update returned.)
C9_UpdateReturnsSumOfAllMembers ==
    (anim.kind = "group" /\ res.op = "update" /\ res.trace # <<>>) =>
        /\ res.value = GroupValue(anim)
        /\ res.velocity = SumReported(res.trace, 1, Zero)

\* C10: each tick updates, once and in list order, exactly the members that have not yet
\* returned Completed; the group returns Completed, becomes inactive and invokes its
\* callback once on the tick where the last outstanding member returns Completed, and
\* returns Active before.
C10_GroupUpdatesOutstandingMembers ==
    [][anim.kind = "group" =>
        LET tr == res'.trace
            before == {i \in DOMAIN retDone : ~retDone[i]}
            after == {i \in DOMAIN retDone : ~retDone'[i]}
            own == IF anim.on_complete # NoCallback THEN 1 ELSE 0
        IN
        /\ TraceMembers(tr) = before
        /\ Len(tr) = Cardinality(before)
        /\ \A k \in 1..(Len(tr) - 1) : tr[k].member < tr[k + 1].member
        /\ \A k \in DOMAIN tr : tr[k].dt = res'.dt
        /\ (before # {} /\ after = {}) =>
              /\ res'.state = "Completed" /\ ~anim'.is_active
              /\ cbCount'[OwnCb] = cbCount[OwnCb] + own
              /\ cbCount[OwnCb] = 0
        /\ after # {} =>
              /\ res'.state = "Active" /\ anim'.is_active
              /\ cbCount'[OwnCb] = 0
        /\ before = {} => cbCount'[OwnCb] = cbCount[OwnCb]]_vars

C10_Witness ==
    /\ anim.kind = "group" /\ Len(anim.animations) >= 2
    /\ anim.on_complete = OwnCb
    /\ res.state = "Completed" /\ Len(res.trace) = 1 /\ res.trace[1].member = 2
    /\ \A i \in DOMAIN retDone : retDone[i]
    /\ ~anim.is_active
    /\ cbCount[OwnCb] = 1

----------------------------------------------------------------------------
(* Properties of the stagger engine (SpecStagger). *)

\* The number of updates item i received in the tick recorded by trace tr.
UpdatesOf(tr, i) == Cardinality({k \in DOMAIN tr : tr[k].member = i})

\* C11: an item with delay d is started on the first tick at which the total dt supplied
\* since start reaches d, whatever the other items do; before that its animation is
\* never updated and stays as built, the aggregate is zero while no item has started,
\* and from that tick on the item is updated once per tick with the tick's dt.
C11_ItemStartsWhenOwnDelayElapsed ==
    [][(anim.kind = "stagger" /\ anim.is_active /\ ~anim.all_completed) =>
        /\ \A i \in DOMAIN anim.items :
              /\ anim'.items[i].started = (clock' >= anim.items[i].delay)
              /\ UpdatesOf(res'.trace, i) = (IF anim'.items[i].started THEN 1 ELSE 0)
              /\ ~anim'.items[i].started =>
                    /\ calls'[i] = 0
                    /\ anim'.items[i].animation = anim.items[i].animation
        /\ \A k \in DOMAIN res'.trace : res'.trace[k].dt = res'.dt
        /\ (Started(anim'.items) = {}) => res'.value = Zero]_vars

\* A later item has just received its first update, on the tick its own delay elapsed,
\* while an earlier item is still waiting.
C11_Witness ==
    /\ anim.kind = "stagger" /\ res.op = "update"
    /\ \E i, j \in DOMAIN anim.items :
          /\ j < i
          /\ anim.items[i].delay > 0 /\ anim.items[i].started /\ calls[i] = 1
          /\ UpdatesOf(res.trace, i) = 1
          /\ clock >= anim.items[i].delay
          /\ clock - DurationFromSecsF32(res.dt) < anim.items[i].delay
          /\ ~anim.items[j].started /\ calls[j] = 0

\* The last item, in insertion order, that has started.
LastStarted(items) == CHOOSE i \in Started(items) : \A j \in Started(items) : j <= i

\* C12: after every update of a started stagger, the update that returns Completed
\* included, the value it reports is the current value of the last started item.
C12_AggregateIsLastStartedItem ==
    [][(/\ anim.kind = "stagger" /\ anim.is_active /\ ~anim.all_completed
        /\ Started(anim'.items) # {})
         => res'.value = LeafValue(anim'.items[LastStarted(anim'.items)].animation)]_vars

\* What one update of a stagger must do, own being the number of times its on_complete
\* callback is to run over the stagger's life: before the stagger has completed it
\* returns Completed exactly when every item has started and had its animation return
\* Completed on this tick, and the callback runs on that tick; afterwards it returns
\* Completed without touching anything, the callback having run own times.
StaggerTickLaw(own) ==
    LET allDone == \A i \in DOMAIN anim.items :
                      /\ anim'.items[i].started
                      /\ \E k \in DOMAIN res'.trace :
                            /\ res'.trace[k].member = i
                            /\ res'.trace[k].state = "Completed"
    IN
    IF anim.is_active /\ ~anim.all_completed
    THEN /\ (res'.state = "Completed") = allDone
         /\ (res'.state = "Active") = ~allDone
         /\ anim'.all_completed = allDone
         /\ cbCount'[OwnCb] = cbCount[OwnCb] + (IF allDone THEN own ELSE 0)
         /\ cbCount[OwnCb] = 0
    ELSE /\ res'.state = "Completed" /\ res'.trace = <<>>
         /\ anim' = anim
         /\ cbCount'[OwnCb] = cbCount[OwnCb]
         /\ cbCount[OwnCb] = own

\* C13 as stated: a stagger returns Completed only on a tick by which every item has
\* started and had its animation return Completed, and Active while an item is waiting
\* or Active; its on_complete callback is invoked exactly once, on the tick it first
\* returns Completed, and never on later updates.
C13_StaggerCompletesWhenAllItemsDone ==
    [][anim.kind = "stagger"
        => StaggerTickLaw(IF anim.on_complete # NoCallback THEN 1 ELSE 0)]_vars

\* C13: a stagger with at least one item returns Completed only on a tick by which every
\* item has started and had its animation return Completed, and Active while an item is
\* waiting or Active; its on_complete callback is invoked exactly once, on that tick, and
\* never on later updates.  A stagger without items returns Completed on every update
\* and never invokes the callback.
C13_StaggerWithItemsCompletesWhenAllItemsDone ==
    [][anim.kind = "stagger"
        => StaggerTickLaw(IF anim.on_complete # NoCallback /\ anim.items # <<>>
                          THEN 1 ELSE 0)]_vars

\* An update made after the stagger completed: the callback has run once.
C13_Witness ==
    /\ anim.kind = "stagger" /\ Len(anim.items) >= 2
    /\ anim.on_complete = OwnCb
    /\ anim.all_completed
    /\ res.state = "Completed" /\ res.trace = <<>>
    /\ cbCount[OwnCb] = 1

----------------------------------------------------------------------------
(* Properties of the tween engine (SpecTweenCell, SpecLeaf). *)

\* initial + (target - initial) * e / D, for e and D in ms
LinearLaw(initial, target, e, D) == Add(initial, Scale(Sub(target, initial), F32(e, D)))

\* The duration of a tween in ms
DurationMs(a) == a.duration \div 1000000

\* C14: a linear, forward tween without delay and with duration D > 0 reports, after
\* updates whose dt sum to e <= D, the value initial + (target - initial) * e / D (within
\* epsilon, exactly in the cases named below), and so does a Value Cell running it: 0 -> 100 over 1000 ms
\* gives 50 at 500 ms and 100 at 1000 ms, the cell tween 0 -> 1 over 500 ms gives 0.5
\* at 250 ms.
C14_LinearTweenLaw ==
    (anim.kind = "tween" /\ res.op = "update" /\ clock <= DurationMs(anim)) =>
        /\ F32Lt(Magnitude(Sub(res.value, LinearLaw(anim.initial, anim.target, clock,
                                                    DurationMs(anim)))),
                 Epsilon)
        /\ TweenValue(anim) = res.value
        /\ EngineGet(engine) = res.value
        /\ (anim.target = V(100) /\ clock = 500) => res.value = V(50)
        /\ (anim.target = V(100) /\ clock = 1000) => res.value = V(100)
        /\ (anim.target = V(1) /\ clock = 250) => EngineGet(engine) = F32(1, 2)

\* The tween 0 -> 100 over 1000 ms sampled at 500 ms.
C14_Witness ==
    /\ anim.kind = "tween" /\ res.op = "update"
    /\ anim.initial = V(0) /\ anim.target = V(100) /\ DurationMs(anim) = 1000
    /\ clock = 500
    /\ res.value = V(50) /\ EngineGet(engine) = V(50)

\* The progress of a tween, before the direction is applied, at elapsed time e
ClampedProgress(a, e) == Progress(AsSecsF32(e), AsSecsF32(a.duration))

\* C15: a running tween detects the completion of a cycle on the first tick where its
\* clamped progress reaches 1 (forward) or, taken from 1, 0 (reverse), which it has
\* done at the latest when elapsed reaches the duration; on that tick its value is
\* exactly target (forward) or initial (reverse); if handle_loop_completion returns
\* true elapsed is reset to zero and the tween stays Active, otherwise it returns
\* Completed and becomes inactive.
C15_TweenCycleCompletion ==
    [][(anim.kind = "tween" /\ anim.is_active /\ HandleDelay(anim.timing, res'.dt).ret) =>
        LET e == anim.elapsed + DurationFromSecsF32(res'.dt)
            done == ClampedProgress(anim, e) = F32One
            reverse == IsReverse(anim.timing)
        IN
        /\ (res'.loopRet # "none") = done
        /\ e >= anim.duration => done
        /\ ClampedProgress(anim, anim.elapsed) # F32One \/ anim.elapsed = 0
        /\ done =>
              /\ res'.value = (IF reverse THEN anim.initial ELSE anim.target)
              /\ TweenValue(anim') = res'.value
              /\ res'.loopRet = "true" =>
                    anim'.elapsed = 0 /\ res'.state = "Active" /\ anim'.is_active
              /\ res'.loopRet = "false" =>
                    res'.state = "Completed" /\ ~anim'.is_active
        /\ ~done => res'.state = "Active" /\ anim'.is_active /\ anim'.elapsed = e]_vars

\* A reverse cycle has just completed and the tween loops on: it sits at initial with
\* elapsed reset.
C15_Witness ==
    /\ anim.kind = "tween" /\ anim.timing.direction = "Reverse" /\ anim.duration > 0
    /\ res.op = "update" /\ res.loopRet = "true"
    /\ res.state = "Active" /\ anim.is_active
    /\ anim.elapsed = 0
    /\ res.value = anim.initial /\ anim.initial # anim.target

\* C16: a spring tick detects the completion of a cycle exactly when the magnitude of
\* the velocity it has just integrated and the magnitude of the displacement
\* (target minus current, taken before the step) are both below epsilon(); a tick on
\* which either magnitude is at least epsilon leaves the cycle running.
C16_SpringCompletionTest ==
    [][(anim.kind = "spring" /\ anim.is_active /\ HandleDelay(anim.timing, res'.dt).ret)
        => ((res'.loopRet # "none")
              <=> (/\ F32Lt(Magnitude(SteppedVelocity(anim, res'.dt)), Epsilon)
                   /\ F32Lt(Magnitude(Displacement(anim)), Epsilon)))]_vars

\* C17: when a spring tick detects the completion of a cycle and the timing continues
\* looping, the spring is put back to its initial value with zero velocity, keeps its
\* target, stays active and the tick returns Active with the initial value.
C17_SpringLoopRestartsFromOrigin ==
    [][(anim.kind = "spring" /\ res'.loopRet = "true")
        => (/\ anim'.current = anim.initial
            /\ anim'.velocity = Zero
            /\ anim'.target = anim.target
            /\ anim'.initial = anim.initial
            /\ anim'.is_active
            /\ res'.state = "Active"
            /\ res'.value = anim.initial
            /\ res'.velocity = Zero)]_vars

\* A spring that has just been restarted for the second time, away from its target.
C17_Witness ==
    /\ anim.kind = "spring"
    /\ res.loopRet = "true"
    /\ cycles >= 2
    /\ anim.is_active
    /\ anim.current = anim.initial
    /\ anim.current # anim.target
    /\ anim.velocity = F32Zero

\* C18: the default spring (stiffness 100, damping 10, mass 1) from 0.0 to 100.0 at
\* rest, stepped every 16 ms, returns Completed in fewer than 500 steps, with the
\* value within epsilon of 100.0 and the velocity below epsilon.
C18_DefaultSpringConverges ==
    LET steps == clock \div StepMs IN
    /\ anim.is_active => steps < StepLimit - 1
    /\ ~anim.is_active =>
          /\ steps < StepLimit
          /\ res.state = "Completed"
          /\ F32Lt(Magnitude(Sub(anim.current, V(100))), Epsilon)
          /\ F32Lt(Magnitude(anim.velocity), Epsilon)

\* The run has ended with Completed at the target after more than a hundred steps.
C18_Witness ==
    /\ anim.kind = "spring" /\ anim.spring = DefaultSpring
    /\ ~anim.is_active
    /\ res.state = "Completed"
    /\ res.value = V(100)
    /\ clock \div StepMs > 100

\* The time a keyframe tick of dt ms advances the clock to.
SampledTime(a, dt) == a.current_time + DurationFromSecsF32(dt)

\* The position a keyframe tick of dt ms samples: the part of the duration that has
\* passed, taken from 1.0 in reverse.
SampledPosition(a, dt) ==
    IF IsReverse(a.timing)
    THEN F32Sub(F32One, F32Div(AsSecsF32(SampledTime(a, dt)), AsSecsF32(a.duration)))
    ELSE F32Div(AsSecsF32(SampledTime(a, dt)), AsSecsF32(a.duration))

\* The keys at or before position p.
KeysAtOrBefore(a, p) == {k \in DOMAIN a.keyframes : F32Le(KeyPosition(k), p)}

\* The interpolation from the keyframe at prevKey to the one at nextKey sampled at
\* position p: at e((p - prevKey) / (nextKey - prevKey)), e being the easing of the
\* previous keyframe, linear when it has none.
SegmentLaw(a, p, prevKey, nextKey) ==
    Interpolate(a.keyframes[prevKey].value, a.keyframes[nextKey].value,
                Ease(a.keyframes[prevKey].easing,
                     F32Div(F32Sub(p, KeyPosition(prevKey)),
                            F32Sub(KeyPosition(nextKey), KeyPosition(prevKey)))))

GreatestKey(keys) == CHOOSE k \in keys : \A j \in keys : j <= k
LeastKey(keys) == CHOOSE k \in keys : \A j \in keys : k <= j

\* The value the bounding pair of position p gives, below being the keys at or before p.
BoundedValue(a, p, below) == SegmentLaw(a, p, GreatestKey(below), LeastKey(DOMAIN a.keyframes \ below))

IsBounded(a, below) == below # {} /\ below # DOMAIN a.keyframes

\* C19: on a keyframe tick that samples a position p with a keyframe at or before it
\* and a keyframe after it, the value is the interpolation from the greatest key <= p
\* to the smallest key > p at e((p - prevKey) / (nextKey - prevKey)), e being the
\* easing of the previous keyframe, linear when it has none.
C19_KeyframeSegmentInterpolation ==
    [][(/\ anim.kind = "keyframe" /\ anim.is_active
        /\ HandleDelay(anim.timing, res'.dt).ret
        /\ SampledTime(anim, res'.dt) < anim.duration)
        => \A p \in {SampledPosition(anim, res'.dt)} :
             \A below \in {KeysAtOrBefore(anim, p)} :
                IsBounded(anim, below) =>
                    /\ res'.state = "Active"
                    /\ res'.value = BoundedValue(anim, p, below)
                    /\ anim'.current = res'.value]_vars

\* A table with keys at 0.0 and 1.0 only, no easing, sampled at position 0.3: the value
\* is 0.0 + 0.3 * (10.0 - 0.0).
C19_Witness ==
    /\ anim.kind = "keyframe"
    /\ DOMAIN anim.keyframes = {0, PositionScale}
    /\ anim.keyframes[0] = Keyframe(V(0), "none")
    /\ anim.keyframes[PositionScale] = Keyframe(V(10), "none")
    /\ ~IsReverse(anim.timing)
    /\ F32Div(AsSecsF32(anim.current_time), AsSecsF32(anim.duration)) = F32(3, 10)
    /\ res.op = "update" /\ res.state = "Active"
    /\ res.value = Interpolate(V(0), V(10), F32(3, 10))

\* C20: when a keyframe cycle ends and looping does not continue, the tick returns
\* Completed, the animation becomes inactive, and the value is the last keyframe's if
\* the cycle just finished played forward, the first keyframe's if it played in reverse.
C20_KeyframeFinalValueByDirection ==
    [][(anim.kind = "keyframe" /\ res'.loopRet = "false")
        => (/\ res'.state = "Completed"
            /\ ~anim'.is_active
            /\ res'.value = (IF IsReverse(anim.timing) THEN FirstKeyframe(anim).value
                                                       ELSE LastKeyframe(anim).value)
            /\ anim'.current = res'.value)]_vars

\* C21: on a keyframe tick that samples a position before the first keyframe the
\* caller added, or after the last one, the value is that boundary keyframe's value.
C21_ClampsOutsideAddedKeyframes ==
    [][(/\ anim.kind = "keyframe" /\ anim.is_active /\ anim.added # {}
        /\ HandleDelay(anim.timing, res'.dt).ret
        /\ SampledTime(anim, res'.dt) < anim.duration)
        => LET p == SampledPosition(anim, res'.dt)
               first == CHOOSE k \in anim.added : \A j \in anim.added : k <= j
               last == CHOOSE k \in anim.added : \A j \in anim.added : j <= k
           IN /\ F32Lt(p, KeyPosition(first))
                    => res'.value = anim.keyframes[first].value
              /\ F32Lt(KeyPosition(last), p)
                    => res'.value = anim.keyframes[last].value]_vars

\* The timing is still in a cycle: no handle_loop_completion call has returned false.
InCycle(tm) ==
    tm.loop_mode = "Infinite" \/ (tm.loop_mode = "Count" /\ tm.current_loop < tm.count)

\* C22: under Infinite or Count looping, a timing built with Alternate is in reverse
\* during cycle k (after k handle_loop_completion calls that returned true) exactly
\* when k is odd, and one built with AlternateReverse exactly when k is even.
C22_AlternateCyclesAlternate ==
    (anim.kind = "timing" /\ InCycle(anim.timing)) =>
        /\ anim.config.direction = "Alternate"
              => (IsReverse(anim.timing) <=> cycles % 2 = 1)
        /\ anim.config.direction = "AlternateReverse"
              => (IsReverse(anim.timing) <=> cycles % 2 = 0)

\* C23: handle_delay(dt) returns false, taking dt off the remaining delay, as long as
\* the dt supplied so far is less than the configured delay; it returns true and marks
\* the delay elapsed on the first call that consumes it (at once for a zero delay);
\* every later call returns true and changes nothing.  (The dt supplied is counted as
\* handle_delay receives it, converted to a Duration; clock is its sum in nanoseconds.)
C23_HandleDelayConsumesDelay ==
    [][(anim.kind = "timing" /\ res'.op = "handle_delay")
        => IF anim.timing.delay_elapsed
           THEN res'.ret /\ anim'.timing = anim.timing
           ELSE /\ res'.ret <=> clock + DurationFromSecsF32(res'.dt) >= anim.config.delay
                /\ ~res'.ret =>
                      anim'.timing = [anim.timing EXCEPT
                                        !.delay = anim.timing.delay
                                                    - DurationFromSecsF32(res'.dt)]
                /\ res'.ret =>
                      /\ anim'.timing.delay_elapsed
                      /\ [anim'.timing EXCEPT !.delay = 0, !.delay_elapsed = FALSE]
                            = [anim.timing EXCEPT !.delay = 0]]_vars

\* A delay of 30 ms consumed exactly by the third of three calls of 10 ms.
C23_Witness ==
    /\ anim.kind = "timing"
    /\ res.op = "handle_delay" /\ res.ret
    /\ anim.config.delay = DurationFromMillis(30)
    /\ res.dt = 10
    /\ clock = anim.config.delay
    /\ anim.timing.delay_elapsed

\* C24: with LoopMode::None a handle_loop_completion call invokes the completion
\* callback, if there is one, exactly once, returns false and leaves the loop counter,
\* the direction and the rest of the timing unchanged.
C24_NoLoopCompletesOnce ==
    [][(/\ anim.kind = "timing" /\ res'.op = "handle_loop_completion"
        /\ anim.timing.loop_mode = "None")
        => (/\ ~res'.ret
            /\ res'.fired = (IF anim.timing.on_complete # NoCallback
                             THEN <<anim.timing.on_complete>> ELSE <<>>)
            /\ anim'.timing = anim.timing)]_vars

\* A None-mode timing with a callback after a handle_loop_completion call.
C24_Witness ==
    /\ anim.kind = "timing"
    /\ anim.config.loop_mode = "None"
    /\ anim.config.direction = "Alternate"
    /\ res.op = "handle_loop_completion"
    /\ ~res.ret
    /\ res.fired = <<OwnCb>>
    /\ cbCount[OwnCb] = 1
    /\ anim.timing.current_loop = 0
    /\ anim.timing.direction = "Alternate"

\* C25: with LoopMode::Infinite every update of a tween, spring or keyframe animation
\* returns Active and leaves it active; whenever the update calls
\* handle_loop_completion, the call returns true, increments the loop counter and
\* invokes no callback.
C25_InfiniteNeverCompletes ==
    [][(anim.timing.loop_mode = "Infinite")
        => (/\ res'.state = "Active"
            /\ anim'.is_active
            /\ res'.loopRet # "false"
            /\ res'.fired = <<>>
            /\ anim'.timing.current_loop =
                  anim.timing.current_loop + (IF res'.loopRet = "true" THEN 1 ELSE 0))]_vars

\* An animation with a completion callback that has finished MaxLoops cycles and is
\* still active, its callback never invoked.
C25_Witness ==
    /\ anim.timing.loop_mode = "Infinite"
    /\ anim.timing.on_complete = OwnCb
    /\ anim.timing.current_loop = MaxLoops
    /\ cycles = MaxLoops
    /\ anim.is_active
    /\ res.state = "Active"
    /\ cbCount[OwnCb] = 0

----------------------------------------------------------------------------
(* The Value Cell: set, stop, interrupt, the builders' start value and        *)
(* is_animating.                                                              *)

\* The operations that install an animation in the cell.
InstallOps ==
    {"spring_to", "tween_to", "apply_keyframes", "apply_sequence", "apply_group",
     "apply_staggered"}

\* What set(v) leaves behind: get() returns v, zero velocity, no engine, not animating.
AfterSet(e, v) ==
    /\ EngineGet(e) = v
    /\ e.velocity = Zero
    /\ e.animation = NoAnimation
    /\ ~EngineIsActive(e)

\* The animation installed in e begins from value v with zero velocity.
BeginsFrom(e, v) ==
    /\ AnimValue(e.animation) = v
    /\ e.velocity = Zero
    /\ e.animation.kind = "spring" => e.animation.velocity = F32Zero

\* C26: set(v), from any state of the cell, makes get() return v, zeroes the stored
\* velocity, removes the installed engine and makes is_animating() false; an animation
\* started right afterwards, by any builder, begins from value v with zero velocity.
C26_SetIsHardReset ==
    [][/\ lastOp'.op = "set" => AfterSet(engine', lastOp'.target)
       /\ (lastOp.op = "set" /\ lastOp'.op \in InstallOps)
            => BeginsFrom(engine', lastOp.target)]_vars

\* The state stop() leaves the cell in: no engine installed and not animating.
Stopped(e) == e.animation = NoAnimation /\ ~EngineIsActive(e)

\* C27: stop() removes the installed engine and makes is_animating() false without
\* changing the stored current value; from then on, until an animation is installed or
\* set() is called, every update(dt) returns false and changes nothing of the cell, and
\* get() returns the stored value and changes no state.
C27_StopFreezesInPlace ==
    [][/\ lastOp'.op = "stop"
            => Stopped(engine') /\ EngineGet(engine') = EngineGet(engine)
       /\ (Stopped(engine) /\ lastOp'.op \in {"stop", "update"})
            => /\ engine' = engine
               /\ \A dt \in AllDts : /\ ~EngineUpdate(engine', dt).ret
                                     /\ EngineUpdate(engine', dt).engine = engine'
               /\ EngineGet(engine') = engine.current]_vars

\* a spring stopped in flight, away from its start and its target, and then updated
C27_Witness ==
    /\ lastOp.op = "update"
    /\ lastOp.kind = "none"
    /\ Stopped(engine)
    /\ engine.current \notin {V(0), V(5), V(10), V(20)}
    /\ engine.velocity # Zero

\* The cell as seen from outside: Animating when an engine is installed and
\* is_animating() is true, Idle otherwise.
Animating(e) == e.animation # NoAnimation /\ EngineIsActive(e)

\* C28: starting a new animation (spring_to, tween_to or any apply_*) while the cell is
\* Animating replaces the engine and leaves is_animating() true: after the call an
\* engine of the started kind is installed and the cell is Animating, never Idle.
C28_InterruptStaysAnimating ==
    [][(Animating(engine) /\ starts' = starts + 1)
        => /\ lastOp'.op \in InstallOps
           /\ engine'.animation.kind = lastOp'.kind
           /\ Animating(engine')]_vars

\* a tween started while a spring was in flight
C28_Witness ==
    /\ starts = 2
    /\ lastOp.op = "tween_to"
    /\ Animating(engine)
    /\ engine.animation.kind = "tween"
    /\ engine.animation.initial \notin {V(0), V(5), V(10)}

\* The operations behind the builders' terminal methods: spring animate_to, tween
\* animate_to, keyframes start, sequence start and group start.
BuilderOps == {"spring_to", "tween_to", "apply_keyframes", "apply_sequence", "apply_group"}

\* The engine installed in e starts its traversal at value v: its own value is v, and
\* the first value the cell reports, after an update of no elapsed time, is v.
StartsAt(e, v) ==
    /\ AnimValue(e.animation) = v
    /\ EngineGet(e) = v
    /\ EngineGet(EngineUpdate(e, 0).engine) = v

\* C29: every builder terminal method (spring animate_to, tween animate_to, keyframes
\* start, sequence start, group start) installs an engine whose traversal starts at the
\* value get() returned before the call, so the first value the cell reports after the
\* installation continues from it.
C29_BuildersStartFromCurrentValue ==
    [][(starts' = starts + 1 /\ lastOp'.op \in BuilderOps)
        => StartsAt(engine', EngineGet(engine))]_vars

\* C30: in every reachable state of the cell, is_animating() is true exactly when an
\* engine is installed and that engine's own is_active() is true, also between the
\* installation of an engine and the first update.
C30_IsAnimatingReflectsEngine ==
    EngineIsActive(engine)
        <=> (engine.animation # NoAnimation /\ AnimIsActive(engine.animation))

\* A sequence, group or stagger with no members.
Empty(a) ==
    \/ a.kind = "sequence" /\ a.steps = <<>>
    \/ a.kind = "group" /\ a.animations = <<>>
    \/ a.kind = "stagger" /\ a.items = <<>>

\* update(dt) called on the animation itself returns Completed, zero value, zero velocity.
CompletesAtZero(a, dt) ==
    /\ AnimUpdate(a, dt).state = "Completed"
    /\ AnimUpdate(a, dt).value = Zero
    /\ AnimUpdate(a, dt).velocity = Zero

\* C31: a started sequence, group or stagger with no members returns Completed with the
\* zero value and zero velocity on its first update, called directly or through the
\* cell, and the cell holding it becomes idle on that update.
C31_EmptyCombinatorCompletesAtOnce ==
    [][(Empty(engine.animation) /\ lastOp'.op = "update")
        => /\ \A dt \in AllDts : CompletesAtZero(engine.animation, dt)
           /\ lastOp'.state = "Completed"
           /\ EngineGet(engine') = Zero
           /\ engine'.velocity = Zero
           /\ engine'.animation = NoAnimation
           /\ ~EngineIsActive(engine')]_vars

\* a cell whose first animation was a sequence that completed at zero: the empty one
\* (the sequence with a step completes at the step's target)
C31_Witness ==
    /\ lastOp = Op("update", "sequence", Zero, "Completed")
    /\ engine.animation = NoAnimation
    /\ ~EngineIsActive(engine)
    /\ EngineGet(engine) = Zero
    /\ starts = 1

\* C32: every spring engine started through the Spring setters or through the cell's
\* spring() builder runs with stiffness >= 0.1, damping >= 0 and mass >= 0.1, whatever
\* values were supplied.
C32_SpringConfigClamped ==
    engine.animation.kind = "spring"
        => /\ engine.animation.spring.stiffness >= MinStiffness
           /\ engine.animation.spring.damping >= MinDamping
           /\ engine.animation.spring.mass >= MinMass

\* C33: a tween or keyframe animation with zero duration divides nothing by zero:
\* on the first update that finds the start delay over (and on every later one while
\* it loops) the cycle is found complete; a tween played Forward is then at its target,
\* a keyframe animation played Forward returns Completed at its last keyframe's value,
\* and without a loop mode that first update returns Completed.
C33_ZeroDurationCompletesAtOnce ==
    [][(anim.kind \in {"tween", "keyframe"} /\ anim.duration = 0 /\ anim.is_active
          /\ HandleDelay(anim.timing, res'.dt).ret)
        => /\ res'.loopRet # "none"
           /\ anim.timing.loop_mode = "None" => res'.state = "Completed"
           /\ (anim.timing.direction = "Forward" /\ anim.kind = "tween")
                => res'.value = anim.target /\ TweenValue(anim') = anim.target
           /\ (anim.timing.direction = "Forward" /\ anim.kind = "keyframe"
                 /\ res'.state = "Completed")
                => res'.value = LastKeyframe(anim).value]_vars

\* a zero-duration keyframe animation completed at its last keyframe by an update of
\* no elapsed time
C33_Witness ==
    /\ anim.kind = "keyframe"
    /\ anim.duration = 0
    /\ anim.timing.direction = "Forward"
    /\ res.op = "update"
    /\ res.dt = 0
    /\ res.state = "Completed"
    /\ res.value = V(10)
    /\ ~anim.is_active

\* x and y agree within the type's epsilon in every component (0.001; 0.5 for i32,
\* whose values are whole numbers): for f64 the magnitude of the difference, taken
\* as f32, lies below the f32 epsilon
WithinEpsilon(type, x, y) ==
    CASE type = "i32" -> x = y
      [] type = "f64" -> F32Lt(F64ToF32(F64Abs(F64Sub(x.v, y.v))), Epsilon)
      [] OTHER -> \A f \in DOMAIN x : F32Lt(F32Abs(F32Sub(x[f], y[f])), Epsilon)

\* C34: for every Animatable type and all values a, b: a.interpolate(b, 0) equals a and
\* a.interpolate(b, 1) equals b within epsilon, also for Transforms whose rotations
\* differ by more than pi, and a t outside [0, 1] gives what the nearer end gives.
C34_InterpolateEndpoints ==
    res.op = "interpolate"
        => /\ F32Le(res.t, F32Zero) => WithinEpsilon(anim.type, res.value, anim.a)
           /\ F32Le(F32One, res.t) => WithinEpsilon(anim.type, res.value, anim.b)
           /\ F32Lt(res.t, F32Zero)
                => res.value = TypedInterpolate(anim.type, anim.a, anim.b, F32Zero)
           /\ F32Lt(F32One, res.t)
                => res.value = TypedInterpolate(anim.type, anim.a, anim.b, F32One)

\* Where reset does restore a fresh instance: no start delay, no alternation.
ResetRestorable(a) ==
    /\ a.timing.delay = 0
    /\ a.timing.direction \in {"Forward", "Reverse"}

\* The sequence s as reset() must leave it, given the sequence before the call.
Rewound(before, s) ==
    /\ DOMAIN s.steps = DOMAIN before.steps
    /\ \A i \in DOMAIN s.steps :
          /\ s.steps[i].animation = LeafReset(before.steps[i].animation)
          /\ ~s.steps[i].completed
          /\ s.steps[i].started = (i = 1)
    /\ s.current_step = 0
    /\ s.is_active = (s.steps # <<>>)

\* The update that follows reset() updates step 0, and only it, and the step answers
\* as the step the sequence was built with answers to its first update.
DrivenFromBeginning(fresh) ==
    /\ Len(res'.trace) = 1
    /\ res'.trace[1] = MemberCall(1, res'.dt, fresh)

\* C35: AnimationSequence::reset() resets every step's animation, clears every
\* completed flag, sets the current step to 0 with step 0 marked started and makes a
\* non-empty sequence active again, so that the next update drives step 0 from its
\* beginning: the step returns what it returned to the same update when new.
C35_SequenceResetRewinds ==
    [][/\ res'.op = "reset" => Rewound(anim, anim')
       /\ (res.op = "reset" /\ res'.op = "update" /\ anim.steps # <<>>)
            => DrivenFromBeginning(LeafUpdate(lastOp.fresh.steps[1].animation, res'.dt))]_vars

\* The same where the first step's own reset() restores it (no start delay, no
\* alternation).
C35_SequenceResetRewindsRestorableStep ==
    [][/\ res'.op = "reset" => Rewound(anim, anim')
       /\ (res.op = "reset" /\ res'.op = "update" /\ anim.steps # <<>>
             /\ ResetRestorable(lastOp.fresh.steps[1].animation))
            => DrivenFromBeginning(LeafUpdate(lastOp.fresh.steps[1].animation, res'.dt))]_vars

\* C36: on the tick where a StaggeredAnimation first returns Completed, the value it
\* returns, and that the cell driving it stores as its final value, is the aggregate
\* stored by the previous update; the cell is idle afterwards.
C36_StaggerCompletesWithStoredAggregate ==
    [][(engine.animation.kind = "stagger" /\ EngineIsActive(engine)
          /\ ~engine.animation.all_completed
          /\ lastOp'.op = "update" /\ lastOp'.state = "Completed")
        => /\ \A dt \in StaggerCellDts :
                StaggerUpdate(engine.animation, dt).state = "Completed"
                   => /\ StaggerUpdate(engine.animation, dt).value
                            = StaggerValue(engine.animation)
                      /\ StaggerValue(StaggerUpdate(engine.animation, dt).anim)
                            = StaggerValue(engine.animation)
           /\ EngineGet(engine') = StaggerValue(engine.animation)
           /\ ~EngineIsActive(engine')
           /\ engine'.animation = NoAnimation]_vars

\* the test's run: the third item was at 15.0, half way, when the previous update stored
\* the aggregate; the completing update leaves the cell at 15.0, not at the items' 30.0
C36_Witness ==
    /\ lastOp = Op("update", "stagger", Zero, "Completed")
    /\ EngineGet(engine) = V(15)
    /\ ~EngineIsActive(engine)
    /\ engine.animation = NoAnimation
    /\ starts = 1

\* C37: in every reachable state of the engine, under any interleaving of update, set,
\* stop and the installers, is_active is true exactly when an animation is installed,
\* and update(dt) returns true exactly when is_active is true after the call.
C37_ActiveIffInstalled ==
    /\ EngineIsActive(engine) <=> engine.animation # NoAnimation
    /\ \A dt \in AllDts :
          EngineUpdate(engine, dt).ret <=> EngineIsActive(EngineUpdate(engine, dt).engine)

\* a keyframe animation installed over another animation and still running after an
\* update
C37_Witness ==
    /\ lastOp = Op("update", "keyframe", Zero, "Active")
    /\ EngineIsActive(engine)
    /\ engine.animation.kind = "keyframe"
    /\ starts = 2

\* C38: once an engine of any kind has returned Completed from update, every later
\* update returns Completed again, leaves is_active() false and value() unchanged,
\* updates no member and invokes no callback: the completion callback has been invoked
\* at most once.
C38_CompletedStaysCompleted ==
    [][(res.op = "update" /\ res.state = "Completed" /\ res'.op = "update")
        => /\ res'.state = "Completed"
           /\ ~AnimIsActive(anim')
           /\ AnimValue(anim') = AnimValue(anim)
           /\ Members(anim') = Members(anim)
           /\ res'.trace = <<>>
           /\ res'.fired = <<>>
           /\ cbCount'[OwnCb] <= 1]_vars

\* a completed two-member group updated again: no member was called and the callback
\* count stayed at one
C38_Witness ==
    /\ anim.kind = "group"
    /\ Len(anim.animations) = 2
    /\ res.op = "update"
    /\ res.state = "Completed"
    /\ res.trace = <<>>
    /\ cbCount[OwnCb] = 1
    /\ \A i \in 1..2 : retDone[i]

-----------------------------------------------------------------------------
(* Properties of reset on the leaf engines (SpecLeafReset). *)

\* C39: after reset() a tween, spring or keyframe animation gives, for every
\* sequence of steps, the same results as the instance as it was constructed:
\* it waits out its start delay again and starts in its configured direction.
C39_ResetBehavesAsFresh ==
    res.op = "reset" =>
        \A dts \in ReplaySteps : Replay(anim, dts) = Replay(lastOp.fresh, dts)

C39_ResetRestoresWithoutDelayOrAlternation ==
    (res.op = "reset" /\ ResetRestorable(lastOp.fresh)) =>
        \A dts \in ReplaySteps : Replay(anim, dts) = Replay(lastOp.fresh, dts)

-----------------------------------------------------------------------------
(* Properties of value() against update (SpecAnyKind). *)

\* C40: for every engine kind, right after update(dt) has returned
\* (state, v, _), value() returns the same v, on every tick.
C40_ValueIsWhatUpdateReturned ==
    res.op = "update" => AnimValue(anim) = res.value

\* The same for every kind but the group.
C40_ValueIsWhatUpdateReturnedButGroup ==
    (res.op = "update" /\ anim.kind # "group") => AnimValue(anim) = res.value

====
